---- MODULE Spec2Model ----
(***************************************************************************)
(* etsm: the configuration-file editor (update_cvars, update_bots,         *)
(* add_exec, remove_exec, get_cvar, list_execs) and the symlink activation *)
(* layer (activate_config, deactivate_config) of ServerManager in          *)
(* src/etsm/managers.py.                                                   *)
(*                                                                         *)
(* A config text is a sequence of one-character strings, so that Python's  *)
(* substring test (`key in config`) and the regular expressions of the     *)
(* source (re.MULTILINE, no word boundary after the key, `\s+` that also   *)
(* takes newlines, `.*` that stops at a newline, the template expansion    *)
(* re.sub applies to its replacement string) are computed character by     *)
(* character as the re module computes them.                               *)
(***************************************************************************)
EXTENDS Integers, Sequences, FiniteSets, TLC

VARIABLES
    cfg,      \* content of etsm_configs/<ConfigName>.cfg, or NoFile
    etmain,   \* entries of <server>/etmain: a set of [name, kind, target]
    last,     \* the last call: [op, key, value, before, ret]
    prev,     \* the call before it: [op, key, value]
    steps,    \* number of calls made so far
    tree,     \* the rest of the server's tree and of its state file
    store,    \* the shared source store (/var/lib/etsm/source)
    inflight  \* the update_cvars invocations of concurrent processes

vars == <<cfg, etmain, last, prev, steps, tree, store, inflight>>

\* Number of calls a behaviour makes.
MaxOps == 2

---------------------------------------------------------------------------
(* Characters and literals *)

NL == "\n"
BS == "\\"
QUOTE == "\""

LowerChars == {"a","b","c","d","e","f","g","h","i","j","k","l","m",
               "n","o","p","q","r","s","t","u","v","w","x","y","z"}
UpperChars == {"A","B","C","D","E","F","G","H","I","J","K","L","M",
               "N","O","P","Q","R","S","T","U","V","W","X","Y","Z"}
DigitChars == {"0","1","2","3","4","5","6","7","8","9"}

\* \w of the re module, on ASCII text
WordChars == LowerChars \cup UpperChars \cup DigitChars \cup {"_"}

\* \s of the re module, on the characters a config text holds here
IsSpace(c) == c \in {" ", NL, "\t"}

NoFile == <<"<no file>">>
None == <<"<None>">>

\* the private config the calls edit and activate
ConfigName == "server.cfg"

---------------------------------------------------------------------------
(* Text and regular-expression primitives *)

Max(S) == CHOOSE x \in S : \A y \in S : y <= x
Min(S) == CHOOSE x \in S : \A y \in S : x <= y

\* s occurs in t at position p
StartsWithAt(t, p, s) ==
    /\ p >= 1
    /\ p + Len(s) - 1 <= Len(t)
    /\ SubSeq(t, p, p + Len(s) - 1) = s

\* Python's `s in t`
Contains(t, s) == \E p \in 1..(Len(t) + 1) : StartsWithAt(t, p, s)

\* `^` under re.MULTILINE: the start of the text or just after a newline
AtLineStart(t, p) == p = 1 \/ (p >= 2 /\ p - 1 <= Len(t) /\ t[p - 1] = NL)

\* where `.*$` started at p ends: the next newline, or one past the text
LineEnd(t, p) ==
    Min({q \in p..Len(t) : t[q] = NL} \cup {Max({p, Len(t) + 1})})

\* length of the run of \s characters at p
SpaceRun(t, p) ==
    Min({q \in p..Len(t) : ~IsSpace(t[q])} \cup {Max({p, Len(t) + 1})}) - p

\* length of the run of \w characters at p
WordRun(t, p) ==
    Min({q \in p..Len(t) : t[q] \notin WordChars} \cup {Max({p, Len(t) + 1})}) - p

\* The match of r"^<word>\s+<key>.*$" (re.MULTILINE) that starts at p: the
\* position one past its last character, or 0 when there is no match at p.
\* `\s+` is greedy and backtracks; nothing stands between the key and `.*`.
PrefixMatchEnd(t, p, word, key) ==
    IF ~AtLineStart(t, p) \/ ~StartsWithAt(t, p, word) THEN 0
    ELSE LET q == p + Len(word)
             ks == {k \in 1..SpaceRun(t, q) : StartsWithAt(t, q + k, key)}
         IN  IF ks = {} THEN 0 ELSE LineEnd(t, q + Max(ks) + Len(key))

\* re.sub(r"^<word>\s+<key>.*$", repl, t, flags=re.MULTILINE), from position
\* p on, repl being the replacement after its template expansion: matches are
\* taken left to right and do not overlap.
RECURSIVE ReSubFrom(_, _, _, _, _)
ReSubFrom(t, p, word, key, repl) ==
    LET starts == {q \in p..Len(t) : PrefixMatchEnd(t, q, word, key) # 0}
    IN  IF starts = {} THEN SubSeq(t, p, Len(t))
        ELSE LET m == Min(starts)
             IN  SubSeq(t, p, m - 1) \o repl
                 \o ReSubFrom(t, PrefixMatchEnd(t, m, word, key), word, key, repl)

\* The replacement string of re.sub is a template: `\\` stands for one
\* backslash, `\n` `\t` `\r` `\a` `\b` `\f` `\v` for the control character, a
\* backslash before a digit is a group reference (the patterns here have no
\* group: re.error) and before another ASCII letter a bad escape (re.error);
\* before any other character it is kept as it is. A backslash ending the
\* template is a bad escape too.
ReError == <<"<re.error>">>

ControlChar(c) ==
    CASE c = "n" -> NL
      [] c = "t" -> "\t"
      [] c = "r" -> "\r"
      [] c = "a" -> "<BEL>"
      [] c = "b" -> "<BS>"
      [] c = "f" -> "\f"
      [] c = "v" -> "<VT>"

RECURSIVE ExpandTemplate(_)
ExpandTemplate(s) ==
    LET slashes == {q \in 1..Len(s) : s[q] = BS}
    IN  IF slashes = {} THEN s
        ELSE LET b == Min(slashes)
             IN  IF b = Len(s) THEN ReError
                 ELSE LET c == s[b + 1]
                          r == ExpandTemplate(SubSeq(s, b + 2, Len(s)))
                          lit == SubSeq(s, 1, b - 1)
                      IN  IF r = ReError THEN ReError
                          ELSE IF c = BS THEN lit \o <<BS>> \o r
                          ELSE IF c \in {"n", "t", "r", "a", "b", "f", "v"}
                               THEN lit \o <<ControlChar(c)>> \o r
                          ELSE IF c \in WordChars \ {"_"} THEN ReError
                          ELSE lit \o <<BS, c>> \o r

\* re.sub with a string replacement: the template is compiled before the
\* scan, so a bad template raises re.error whether or not the pattern matches.
ReSub(t, word, key, new_line) ==
    LET repl == ExpandTemplate(new_line)
    IN  IF repl = ReError THEN ReError
        ELSE ReSubFrom(t, 1, word, key, repl)

---------------------------------------------------------------------------
(* The lines the editor writes *)

SET == <<"s","e","t">>
BOT == <<"b","o","t">>
EXEC == <<"e","x","e","c">>

\* " // cvar updated by etsm"
CvarComment ==
    <<" ","/","/"," ","c","v","a","r"," ","u","p","d","a","t","e","d"," ",
      "b","y"," ","e","t","s","m">>

\* " // bot config updated by etsm"
BotComment ==
    <<" ","/","/"," ","b","o","t"," ","c","o","n","f","i","g"," ",
      "u","p","d","a","t","e","d"," ","b","y"," ","e","t","s","m">>

\* " // exec added by etsm\n"
ExecComment ==
    <<" ","/","/"," ","e","x","e","c"," ","a","d","d","e","d"," ",
      "b","y"," ","e","t","s","m",NL>>

\* "set %s \"%s\" // cvar updated by etsm" % (key, value)
CvarLine(key, value) ==
    SET \o <<" ">> \o key \o <<" ", QUOTE>> \o value \o <<QUOTE>> \o CvarComment

\* "bot %s %s // bot config updated by etsm" % (key, value)
BotLine(key, value) ==
    BOT \o <<" ">> \o key \o <<" ">> \o value \o BotComment

\* "exec %s // exec added by etsm\n" % exec_name
ExecLine(exec_name) == EXEC \o <<" ">> \o exec_name \o ExecComment

\* The header of an automatically created config: two comment lines, the
\* second with datetime.now() as "%Y-%m-%d %H:%M:%S".
Header(ts) ==
    <<"/","/"," ","C","o","n","f","i","g"," ","f","i","l","e"," ",
      "g","e","n","e","r","a","t","e","d"," ","b","y"," ","e","t","s","m",NL>>
    \o <<"/","/"," ","C","r","e","a","t","e"," ","T","i","m","e",":"," ">>
    \o ts \o <<NL>>

---------------------------------------------------------------------------
(* The editor's algorithms on a config text *)

\* One turn of the loop of update_cvars (lines 571-580) for the pair key,
\* value: ReError when re.sub raises.
update_cvars_step(config, key, value) ==
    LET new_line == CvarLine(key, value)
    IN  IF Contains(config, key)
        THEN ReSub(config, SET, key, new_line)
        ELSE config \o new_line \o <<NL>>

\* The loop of update_cvars over new_values.items(), a sequence of pairs
RECURSIVE update_cvars_loop(_, _)
update_cvars_loop(config, new_values) ==
    IF new_values = <<>> THEN config
    ELSE LET c == update_cvars_step(config, Head(new_values)[1], Head(new_values)[2])
         IN  IF c = ReError THEN ReError
             ELSE update_cvars_loop(c, Tail(new_values))

\* One turn of the loop of update_bots (lines 598-607)
update_bots_step(config, key, value) ==
    LET new_line == BotLine(key, value)
    IN  IF Contains(config, key)
        THEN ReSub(config, BOT, key, new_line)
        ELSE config \o new_line \o <<NL>>

RECURSIVE update_bots_loop(_, _)
update_bots_loop(config, new_values) ==
    IF new_values = <<>> THEN config
    ELSE LET c == update_bots_step(config, Head(new_values)[1], Head(new_values)[2])
         IN  IF c = ReError THEN ReError
             ELSE update_bots_loop(c, Tail(new_values))

\* r"^exec\s+\w+" (re.MULTILINE) matches at p: a line start, "exec", a run of
\* whitespace and a word character. `\s+` can give nothing back to `\w+`, a
\* word character being no whitespace, so it takes the whole run.
ExecMatchAt(t, p) ==
    /\ AtLineStart(t, p)
    /\ StartsWithAt(t, p, EXEC)
    /\ SpaceRun(t, p + Len(EXEC)) >= 1
    /\ WordRun(t, p + Len(EXEC) + SpaceRun(t, p + Len(EXEC))) >= 1

\* re.findall(r"^exec\s+(\w+).*$", config, re.MULTILINE), from position p on:
\* the names, in file order. A match runs to the end of its line.
RECURSIVE FindExecsFrom(_, _)
FindExecsFrom(t, p) ==
    LET starts == {q \in p..Len(t) : ExecMatchAt(t, q)}
    IN  IF starts = {} THEN <<>>
        ELSE LET m == Min(starts)
                 w == m + Len(EXEC) + SpaceRun(t, m + Len(EXEC))
                 n == WordRun(t, w)
             IN  <<SubSeq(t, w, w + n - 1)>> \o FindExecsFrom(t, LineEnd(t, w + n))

\* The match of r'^set\s+<cvar>\s+"(.*)".*$' that starts at p: the record of
\* its end and of its group, its end being 0 when there is no match at p.
\* `(.*)` is greedy: the group runs to the last quote of the line.
NoMatch == [end |-> 0, group |-> <<>>]

CvarMatch(t, p, cvar) ==
    IF ~AtLineStart(t, p) \/ ~StartsWithAt(t, p, SET) THEN NoMatch
    ELSE LET q == p + Len(SET)
             ks == {k \in 1..SpaceRun(t, q) :
                      /\ StartsWithAt(t, q + k, cvar)
                      /\ LET r == q + k + Len(cvar)
                             n == SpaceRun(t, r)
                         IN  n >= 1 /\ r + n <= Len(t) /\ t[r + n] = QUOTE
                             /\ \E c \in r + n + 1..LineEnd(t, r + n + 1) - 1 :
                                    t[c] = QUOTE}
         IN  IF ks = {} THEN NoMatch
             ELSE LET r == q + Max(ks) + Len(cvar)
                      o == r + SpaceRun(t, r)
                      le == LineEnd(t, o + 1)
                      c == Max({j \in o + 1..le - 1 : t[j] = QUOTE})
                  IN  [end |-> le, group |-> SubSeq(t, o + 1, c - 1)]

\* re.findall of that pattern from position p on: the groups, in file order
RECURSIVE FindCvarFrom(_, _, _)
FindCvarFrom(t, p, cvar) ==
    LET starts == {q \in p..Len(t) : CvarMatch(t, q, cvar).end # 0}
    IN  IF starts = {} THEN <<>>
        ELSE LET m == CvarMatch(t, Min(starts), cvar)
             IN  <<m.group>> \o FindCvarFrom(t, m.end, cvar)

\* matches[0]: the first match instead of the last
FirstMatch(matches) == matches[1]

\* matches[-1], the value get_cvar returns (line 536)
LastMatch(matches) == matches[Len(matches)]

\* the exec lines of the target exec_name alone
SameNameExecs(config, exec_name) ==
    SelectSeq(FindExecsFrom(config, 1), LAMBDA n : n = exec_name)

\* The matches add_exec looks for (line 627): every exec line, whatever its
\* target
ExecMatches(config, exec_name) == FindExecsFrom(config, 1)

---------------------------------------------------------------------------
(* Inputs *)

g_pass == <<"g","_","p","a","s","s">>
g_password == <<"g","_","p","a","s","s","w","o","r","d">>
comp == <<"c","o","m","p">>
comp2 == <<"c","o","m","p","2">>

\* cvar and bot setting names: one is a prefix of the other
Keys == {g_pass, g_password}

\* exec targets: one is a prefix of the other
ExecNames == {comp, comp2}

\* values: a plain one, and one with an escaped backslash (two characters)
Values == {<<"1">>, <<BS, BS>>}

\* new_values of update_cvars and update_bots: the empty dict (create_config's
\* default) and the one-pair dicts the command line passes
Dicts == {<<>>} \cup {<<<<k, v>>>> : k \in Keys, v \in Values}

\* datetime.now() at the creation of a config
Timestamps ==
    {<<"2","0","2","4","-","0","1","-","0","1"," ","0","0",":","0","0",":","0","0">>}

\* Lines of a config as the data model has them, each ended by a newline
L_pass0 == SET \o <<" ">> \o g_pass \o <<" ", QUOTE, "0", QUOTE, NL>>
L_pass9 == SET \o <<" ">> \o g_pass \o <<" ", " ", QUOTE, "9", QUOTE, NL>>
L_password == SET \o <<" ">> \o g_password \o <<" ", QUOTE, "0", QUOTE>>
              \o <<" ","/","/"," ","o","l","d",NL>>
L_comment == <<"/","/"," ">> \o g_pass \o <<" ","i","s"," ","u","n","s","e","t",NL>>
L_bot == BOT \o <<" ">> \o g_pass \o <<" ","0",NL>>
L_botword == BOT \o <<" ">> \o g_password \o <<" ","0"," ","/","/"," ","o","l","d",NL>>
L_exec == EXEC \o <<" ">> \o comp \o <<NL>>
L_exec2 == EXEC \o <<" ">> \o comp2 \o <<" ","/","/"," ","m","o","r","e",NL>>

\* The config texts a behaviour starts from
StartTexts ==
    { <<>>,
      L_pass0,
      L_pass0 \o L_pass9,
      L_pass0 \o L_password,
      L_password,
      L_comment,
      L_comment \o L_password,
      L_bot,
      L_bot \o L_botword,
      L_botword \o L_pass0,
      L_exec,
      L_exec2,
      L_exec \o L_exec2,
      L_pass0 \o L_exec2 \o L_bot }

\* The entry of the private config in etmain, as a symlink and as a regular
\* file (one the server archive brought)
PrivatePath == <<"etsm_configs", ConfigName>>
LinkEntry == [name |-> ConfigName, kind |-> "symlink", target |-> PrivatePath]
FileEntry == [name |-> ConfigName, kind |-> "file", target |-> <<>>]

---------------------------------------------------------------------------
(* The file system the calls see *)

\* Path.exists() of the private config etsm_configs/<ConfigName>
ConfigExists == cfg # NoFile

\* Path.exists() of etmain/<name>: it follows a symlink to its target
EtmainExists(name) ==
    \E e \in etmain :
        /\ e.name = name
        /\ \/ e.kind = "file"
           \/ e.kind = "symlink" /\ e.target = PrivatePath /\ ConfigExists

\* get_config: the text of the config, None (after an error message) when
\* the file does not exist
get_config == IF ConfigExists THEN cfg ELSE None

\* The record of a call. raised: the exception that left the call, "" when
\* it returned; log: the level of the last message logged before the return
\* of a call that stopped early, "" otherwise; out: the value returned.
Call(op, args, raised, log, out) ==
    [op |-> op, args |-> args, before |-> cfg, links |-> etmain,
     raised |-> raised, log |-> log, out |-> out]

Note(call) ==
    /\ UNCHANGED inflight
    /\ last' = call
    /\ prev' = [op |-> last.op, args |-> last.args]
    /\ steps' = steps + 1

\* The calls of the editor and of the activation layer touch neither the
\* rest of the tree nor the shared store.
Record(call) ==
    /\ Note(call)
    /\ UNCHANGED <<tree, store>>

---------------------------------------------------------------------------
(* The server's tree beyond the edited config, and the shared source store *)

\* str.lower() on the letters a map name holds
UpperSeq == <<"A","B","C","D","E","F","G","H","I","J","K","L","M",
              "N","O","P","Q","R","S","T","U","V","W","X","Y","Z">>
LowerSeq == <<"a","b","c","d","e","f","g","h","i","j","k","l","m",
              "n","o","p","q","r","s","t","u","v","w","x","y","z">>
ToLower(c) ==
    IF c \in UpperChars
    THEN LowerSeq[CHOOSE i \in 1..Len(UpperSeq) : UpperSeq[i] = c]
    ELSE c
lower(s) == [i \in 1..Len(s) |-> ToLower(s[i])]

\* A file name is <<stem, extension>>, the stem a sequence of characters;
\* a path is <<directory, file name>>.
pak0 == <<"p","a","k","0">>
pak1 == <<"p","a","k","1">>
pak2 == <<"p","a","k","2">>
Paks == {pak0, pak1, pak2}
Oasis == <<"O","a","s","i","s">>
fuel == <<"f","u","e","l">>
MapStems == {Oasis, fuel}
mapvotecycle == <<"m","a","p","v","o","t","e","c","y","c","l","e">>

\* map_name with ".pk3" added when it does not end with it
with_pk3(map_name) ==
    IF map_name[2] = "pk3" THEN map_name ELSE <<map_name[1], "pk3">>

SourceMap(name) == <<"source/maps", name>>
SourcePak(stem) == <<"source/servers/etmain", <<stem, "pk3">>>>
PrivateConfig(stem) == <<"etsm_configs", <<stem, "cfg">>>>

MapLink(stem) ==
    [name |-> <<stem, "pk3">>, kind |-> "symlink",
     target |-> SourceMap(<<stem, "pk3">>)]
PakLink(stem) ==
    [name |-> <<stem, "pk3">>, kind |-> "symlink", target |-> SourcePak(stem)]
DirEntry(stem) == [name |-> <<stem, "pk3">>, kind |-> "dir", target |-> <<>>]

\* The tree of a server whose archive is unpacked, and an empty store
NoVersion == "<None>"
DefaultVersion == "2.80.1"

\* SERVER_CONFIG_DEFAULTS, the state file .etsm_config is created with
DefaultIp == "0.0.0.0"
DefaultPort == 27960
DefaultMod == "legacy"
DefaultStartupConfigs ==
    << <<"e","t","l","_","s","e","r","v","e","r",".","c","f","g">> >>

\* No directory /var/lib/etsm/servers/<name>
AbsentTree ==
    [root |-> FALSE, etmain_dir |-> FALSE, maps |-> {}, mapvote |-> NoFile,
     installed_version |-> NoVersion,
     mod_dir |-> FALSE, mod_version |-> NoFile,
     server_ip |-> DefaultIp, server_port |-> DefaultPort,
     server_mod |-> DefaultMod,
     startup_configs |-> DefaultStartupConfigs,
     configs |-> {}, unit |-> NoFile]
InstalledTree ==
    [AbsentTree EXCEPT !.root = TRUE, !.etmain_dir = TRUE,
                       !.installed_version = DefaultVersion]

\* The versions the manifest lists: of the server type etl, and of the mod
Versions == {DefaultVersion, "2.81.0"}
ModVersions == {<<"2",".","8","0">>, <<"2",".","8","1">>}

\* What a file of the store holds: nothing after open(destination, "wb")
\* and no byte written, what the mirror serves now, or something else
Empty == <<>>
Current == <<"current">>
Stale == <<"stale">>

\* tarfile.open of an archive of the store
OpenArchive(content) ==
    IF content = NoFile THEN "FileNotFoundError"
    ELSE IF content = Empty THEN "ReadError"
    ELSE ""

EmptyStore ==
    [maps |-> {}, paks |-> {},
     paks_tgz |-> NoFile,
     servers |-> [v \in Versions |-> NoFile],
     mods |-> [v \in ModVersions |-> NoFile],
     systemd |-> NoFile,
     templates |-> NoFile,
     checksums |-> NoFile]

\* Path.exists() of a path of the shared store or of etsm_configs
TargetExists(target, tr, st) ==
    CASE target[1] = "source/maps" ->
            target[2][2] = "pk3" /\ target[2][1] \in st.maps
      [] target[1] = "source/servers/etmain" ->
            target[2][2] = "pk3" /\ target[2][1] \in st.paks
      [] target[1] = "etsm_configs" ->
            \/ target[2] = <<mapvotecycle, "cfg">> /\ tr.mapvote # NoFile
            \/ target[2] \in tr.configs
      [] OTHER -> FALSE

\* Path.exists() of etmain/<name>: it follows a symlink to its target
EntryExists(entries, name, tr, st) ==
    \E e \in entries :
        /\ e.name = name
        /\ \/ e.kind \in {"file", "dir"}
           \/ e.kind = "symlink" /\ TargetExists(e.target, tr, st)

\* The record of a call on the tree
TreeCall(op, args, raised, log, out) ==
    [op |-> op, args |-> args, before |-> tree, links |-> etmain,
     shared |-> store, raised |-> raised, log |-> log, out |-> out]

\* The orders in which iterdir() can yield the members of S
Orders(S) ==
    {f \in [1..Cardinality(S) -> S] :
        \A i, j \in 1..Cardinality(S) : i # j => f[i] # f[j]}

---------------------------------------------------------------------------
(* The calls *)

\* Two command-line processes; outside the concurrent runs neither has an
\* update_cvars under way.
Procs == {1, 2}
Idle ==
    [p \in Procs |-> [pc |-> "idle", new_values |-> <<>>, config |-> None,
                      raised |-> "", overlapped |-> FALSE]]

Init ==
    /\ inflight = Idle
    /\ cfg \in StartTexts \cup {NoFile}
    /\ etmain \in {{}, {FileEntry}}
    /\ last = [op |-> "init", args |-> <<>>, before |-> NoFile, links |-> {},
               raised |-> "", log |-> "", out |-> None]
    /\ prev = [op |-> "init", args |-> <<>>]
    /\ steps = 0
    /\ tree = InstalledTree
    /\ store = EmptyStore

\* update_cvars(config_name, new_values). The directory of the private
\* configs is made by __init__ (line 291), so config_path.parent exists and
\* a missing config is created with its header, which is written at once.
update_cvars(new_values) ==
    /\ steps < MaxOps
    /\ \E ts \in Timestamps :
       \E config \in {IF ConfigExists THEN get_config ELSE Header(ts)} :
       \E res \in {update_cvars_loop(config, new_values)} :
             /\ cfg' = IF res = ReError THEN config ELSE res
             /\ Record(Call("update_cvars", new_values,
                            IF res = ReError THEN "re.error" ELSE "", "", None))
    /\ UNCHANGED etmain

\* update_bots(config_name, new_values)
update_bots(new_values) ==
    /\ steps < MaxOps
    /\ \E ts \in Timestamps :
       \E config \in {IF ConfigExists THEN get_config ELSE Header(ts)} :
       \E res \in {update_bots_loop(config, new_values)} :
             /\ cfg' = IF res = ReError THEN config ELSE res
             /\ Record(Call("update_bots", new_values,
                            IF res = ReError THEN "re.error" ELSE "", "", None))
    /\ UNCHANGED etmain

\* add_exec(config_name, exec_name)
add_exec(exec_name) ==
    /\ steps < MaxOps
    /\ \E ts \in Timestamps :
       \E config \in {IF ConfigExists THEN get_config ELSE Header(ts)} :
       \E matches \in {ExecMatches(config, exec_name)} :
             IF Len(matches) > 0
             THEN /\ cfg' = config
                  /\ Record(Call("add_exec", <<exec_name>>, "", "warn", None))
             ELSE /\ cfg' = config \o ExecLine(exec_name)
                  /\ Record(Call("add_exec", <<exec_name>>, "", "", None))
    /\ UNCHANGED etmain

\* remove_exec(config_name, exec_name): the replacement is the empty string
remove_exec(exec_name) ==
    /\ steps < MaxOps
    /\ IF ~ConfigExists
       THEN /\ UNCHANGED cfg
            /\ Record(Call("remove_exec", <<exec_name>>, "", "error", None))
       ELSE /\ cfg' = ReSub(get_config, EXEC, exec_name, <<>>)
            /\ Record(Call("remove_exec", <<exec_name>>, "", "", None))
    /\ UNCHANGED etmain

\* get_cvar(config_name, cvar): re.findall on None raises TypeError
get_cvar(cvar) ==
    /\ steps < MaxOps
    /\ IF get_config = None
       THEN Record(Call("get_cvar", <<cvar>>, "TypeError", "", None))
       ELSE \E matches \in {FindCvarFrom(get_config, 1, cvar)} :
                IF Len(matches) = 0
                THEN Record(Call("get_cvar", <<cvar>>, "", "warn", None))
                ELSE Record(Call("get_cvar", <<cvar>>, "", "", LastMatch(matches)))
    /\ UNCHANGED <<cfg, etmain>>

\* list_execs(config_name)
list_execs ==
    /\ steps < MaxOps
    /\ IF get_config = None
       THEN Record(Call("list_execs", <<>>, "", "error", None))
       ELSE \E matches \in {FindExecsFrom(get_config, 1)} :
                IF Len(matches) = 0
                THEN Record(Call("list_execs", <<>>, "", "warn", None))
                ELSE Record(Call("list_execs", <<>>, "", "", matches))
    /\ UNCHANGED <<cfg, etmain>>

\* activate_config without the test of lines 466-468
activate_config_unchecked ==
    /\ steps < MaxOps
    /\ IF ~ConfigExists
       THEN /\ UNCHANGED etmain
            /\ Record(Call("activate_config", <<>>, "", "error", None))
       ELSE IF \E e \in etmain : e.name = ConfigName
       THEN /\ UNCHANGED etmain
            /\ Record(Call("activate_config", <<>>, "FileExistsError", "", None))
       ELSE /\ etmain' = etmain \cup {LinkEntry}
            /\ Record(Call("activate_config", <<>>, "", "", None))
    /\ UNCHANGED cfg

\* activate_config(config_name). os.symlink raises FileExistsError when the
\* destination is there, which exists() misses for a dangling symlink.
activate_config ==
    /\ steps < MaxOps
    /\ IF ~ConfigExists
       THEN /\ UNCHANGED etmain
            /\ Record(Call("activate_config", <<>>, "", "error", None))
       ELSE IF EtmainExists(ConfigName)
       THEN /\ UNCHANGED etmain
            /\ Record(Call("activate_config", <<>>, "", "info", None))
       ELSE IF \E e \in etmain : e.name = ConfigName
       THEN /\ UNCHANGED etmain
            /\ Record(Call("activate_config", <<>>, "FileExistsError", "", None))
       ELSE /\ etmain' = etmain \cup {LinkEntry}
            /\ Record(Call("activate_config", <<>>, "", "", None))
    /\ UNCHANGED cfg

\* deactivate_config(config_name): its first statement (line 473) reads the
\* local variable config_path, which nothing has assigned yet, so the call
\* raises UnboundLocalError before it looks at the file system.
deactivate_config ==
    /\ steps < MaxOps
    /\ Record(Call("deactivate_config", <<>>, "UnboundLocalError", "", None))
    /\ UNCHANGED <<cfg, etmain>>

Next ==
    \/ \E new_values \in Dicts : update_cvars(new_values)
    \/ \E new_values \in Dicts : update_bots(new_values)
    \/ \E exec_name \in ExecNames : add_exec(exec_name)
    \/ \E exec_name \in ExecNames : remove_exec(exec_name)
    \/ \E cvar \in Keys : get_cvar(cvar)
    \/ list_execs
    \/ activate_config
    \/ deactivate_config

Spec == Init /\ [][Next]_vars

---------------------------------------------------------------------------
(* The vocabulary of the properties: a config read line by line *)

\* The lines of a text, without their newlines
RECURSIVE LinesFrom(_, _)
LinesFrom(t, p) ==
    IF p > Len(t) THEN <<>>
    ELSE <<SubSeq(t, p, LineEnd(t, p) - 1)>> \o LinesFrom(t, LineEnd(t, p) + 1)

Lines(t) == LinesFrom(t, 1)

\* the line matches ^<word>\s+<name>\b
IsLineOf(line, word, name) ==
    /\ StartsWithAt(line, 1, word)
    /\ \E k \in 1..Len(line) :
        /\ \A j \in Len(word) + 1..Len(word) + k : j <= Len(line) /\ IsSpace(line[j])
        /\ StartsWithAt(line, Len(word) + k + 1, name)
        /\ LET r == Len(word) + k + Len(name) + 1
           IN  r > Len(line) \/ line[r] \notin WordChars

\* the line matches ^exec\s+\w+
IsExecLine(line) ==
    /\ StartsWithAt(line, 1, EXEC)
    /\ \E k \in 1..Len(line) :
        /\ \A j \in Len(EXEC) + 1..Len(EXEC) + k : j <= Len(line) /\ IsSpace(line[j])
        /\ Len(EXEC) + k + 1 <= Len(line)
        /\ line[Len(EXEC) + k + 1] \in WordChars

\* the indices of the lines of t that set the cvar name
SetLinesOf(t, name) == {i \in 1..Len(Lines(t)) : IsLineOf(Lines(t)[i], SET, name)}

\* the text a call found: an absent config counts as an empty one
Before == IF last.before = NoFile THEN <<>> ELSE last.before

\* the last call was op with the single pair N, V and it returned
Upserted(op) == last.op = op /\ Len(last.args) = 1 /\ last.raised = ""
N == last.args[1][1]
V == last.args[1][2]

\* a value re.sub's template expansion leaves as it is
Plain(v) == \A i \in 1..Len(v) : v[i] # BS

\* the last two calls were the same upsert
UpsertedTwice(op) == Upserted(op) /\ prev.op = op /\ prev.args = last.args

---------------------------------------------------------------------------
(* Properties *)

\* C1: after update_cvars(config, {N: V}) has been applied twice in
\* succession, exactly one line of the file sets N, and it is the canonical
\* line set N "V" // cvar updated by etsm. (Stated for the values V without a
\* backslash.)
C1_TwiceLeavesOneCanonicalLine ==
    (UpsertedTwice("update_cvars") /\ Plain(V)) =>
        /\ Cardinality(SetLinesOf(cfg, N)) = 1
        /\ \A i \in SetLinesOf(cfg, N) : Lines(cfg)[i] = CvarLine(N, V)

\* C2: when no line of the config matches ^set\s+name\b, update_cvars appends
\* the canonical line, so the file holds it afterwards, whatever else the text
\* holds.
C2_AppendsWhenNoSetLine ==
    (Upserted("update_cvars") /\ Plain(V) /\ SetLinesOf(Before, N) = {}) =>
        \E i \in 1..Len(Lines(cfg)) : Lines(cfg)[i] = CvarLine(N, V)

\* C3: update_cvars replaces exactly the lines matching ^set\s+name\b with
\* the canonical line and leaves every other line as it was, the set line of
\* a cvar whose name only begins with name among them. (Stated for the values
\* without a backslash.)
C3_ReplacesExactlyTheMatchingLines ==
    (Upserted("update_cvars") /\ Plain(V) /\ last.before # NoFile) =>
        \A i \in 1..Len(Lines(Before)) :
            /\ i <= Len(Lines(cfg))
            /\ Lines(cfg)[i] = IF i \in SetLinesOf(Before, N)
                               THEN CvarLine(N, V)
                               ELSE Lines(Before)[i]

\* C4: update_cvars and update_bots are idempotent: the same upsert applied a
\* second time leaves the text as the first application left it.
C4_UpsertIdempotent ==
    (UpsertedTwice("update_cvars") \/ UpsertedTwice("update_bots")) =>
        cfg = last.before

\* the first quoted value of a line: what stands between its first quote and
\* the next one
QuotedValue(line) ==
    LET qs == {j \in 1..Len(line) : line[j] = QUOTE}
        o == Min(qs)
        c == Min(qs \ {o})
    IN  SubSeq(line, o + 1, c - 1)

\* the line is  set <name> "<value>" ...
IsQuotedSetLine(line, name) ==
    LET a == Len(SET) + 1
        r == a + SpaceRun(line, a) + Len(name)
        o == r + SpaceRun(line, r)
    IN  /\ StartsWithAt(line, 1, SET)
        /\ SpaceRun(line, a) >= 1
        /\ StartsWithAt(line, a + SpaceRun(line, a), name)
        /\ SpaceRun(line, r) >= 1
        /\ o <= Len(line) /\ line[o] = QUOTE
        /\ \E c \in o + 1..Len(line) : line[c] = QUOTE

QuotedSetLinesOf(t, name) ==
    {i \in 1..Len(Lines(t)) : IsQuotedSetLine(Lines(t)[i], name)}

\* C5: get_cvar(config, X) returns the value of the last line set X "..." in
\* file order, and no value when the file holds no such line.
C5_GetCvarLastWins ==
    (last.op = "get_cvar" /\ last.raised = "") =>
        LET X == last.args[1]
            found == QuotedSetLinesOf(cfg, X)
        IN  IF found = {} THEN last.out = None
            ELSE last.out = QuotedValue(Lines(cfg)[Max(found)])

\* C5 witness: get_cvar has returned the value of the second of two lines
\* that set the same cvar to different values
C5_Witness ==
    /\ last.op = "get_cvar"
    /\ \E i, j \in QuotedSetLinesOf(cfg, last.args[1]) :
        /\ i < j
        /\ QuotedValue(Lines(cfg)[i]) # QuotedValue(Lines(cfg)[j])
        /\ last.out = QuotedValue(Lines(cfg)[j])

\* the number of exec lines of a text
ExecCount(t) == Cardinality({i \in 1..Len(Lines(t)) : IsExecLine(Lines(t)[i])})

\* the line add_exec writes, without its newline
ExecLineText(exec_name) == SubSeq(ExecLine(exec_name), 1, Len(ExecLine(exec_name)) - 1)

\* C6: add_exec appends  exec name // exec added by etsm  if and only if no
\* line of the config matches ^exec\s+\w+, and leaves the file as it is when
\* an exec line exists, whatever its target; so add_exec calls never bring a
\* file without exec lines to more than one.
C6_AddExecOnlyWithoutExecLine ==
    (last.op = "add_exec") =>
        /\ last.raised = ""
        /\ IF ExecCount(Before) = 0
           THEN /\ Lines(cfg)[Len(Lines(cfg))] = ExecLineText(last.args[1])
                /\ last.before # NoFile =>
                       cfg = last.before \o ExecLineText(last.args[1]) \o <<NL>>
                /\ ExecCount(cfg) = 1
           ELSE cfg = last.before

\* C6 witness: a second add_exec, for another target, has left the file with
\* the exec line the first one wrote
C6_Witness ==
    /\ last.op = "add_exec" /\ prev.op = "add_exec"
    /\ last.args # prev.args
    /\ cfg = last.before
    /\ ExecCount(cfg) = 1
    /\ Lines(cfg)[Len(Lines(cfg))] = ExecLineText(prev.args[1])

\* the lines of t that are not empty and do not match ^exec\s+name\b
OtherLines(t, name) ==
    SelectSeq(Lines(t), LAMBDA l : l # <<>> /\ ~IsLineOf(l, EXEC, name))

\* C7: remove_exec(config, name) deletes the lines matching ^exec\s+name\b
\* and leaves every other line as it was, the exec lines of a target that only
\* begins with name among them; list_execs then does not report name.
C7_RemoveExecLeavesOtherLines ==
    (last.op = "remove_exec" /\ last.before # NoFile) =>
        /\ OtherLines(cfg, last.args[1]) = OtherLines(Before, last.args[1])
        /\ \A i \in 1..Len(Lines(cfg)) : ~IsLineOf(Lines(cfg)[i], EXEC, last.args[1])
        /\ \A i \in 1..Len(FindExecsFrom(cfg, 1)) :
               FindExecsFrom(cfg, 1)[i] # last.args[1]

\* C8: after update_bots(config, {name: value}) the file holds the line
\* bot name value // bot config updated by etsm, the value unquoted, put in
\* the place of every bot line of name or appended when there was none.
\* (Stated for the values without a backslash.)
C8_UpdateBotsWritesBotLine ==
    (Upserted("update_bots") /\ Plain(V)) =>
        \E i \in 1..Len(Lines(cfg)) : Lines(cfg)[i] = BotLine(N, V)

\* the config is active: etmain holds the link to the private config
Active(links) == LinkEntry \in links

\* C9: activate_config on a config that is already active does not raise and
\* leaves etmain as it was, with exactly one entry for the config, the link
\* to the private config.
C9_ActivateAgainIsNoOp ==
    (last.op = "activate_config" /\ Active(last.links) /\ last.before # NoFile) =>
        /\ last.raised = ""
        /\ etmain = last.links
        /\ {e \in etmain : e.name = ConfigName} = {LinkEntry}
        /\ cfg = last.before

\* C9 witness: activate_config has been called twice, the first call having
\* made the link
C9_Witness ==
    /\ last.op = "activate_config" /\ prev.op = "activate_config"
    /\ Active(last.links)
    /\ last.before # NoFile
    /\ last.log = "info"

\* C10: deactivate_config on an active config removes its link from etmain
\* and leaves the private config untouched; on a config that is not active
\* it reports a failure and changes nothing.
C10_DeactivateRemovesLink ==
    (last.op = "deactivate_config") =>
        /\ cfg = last.before
        /\ IF Active(last.links)
           THEN last.raised = "" /\ ~Active(etmain) /\ etmain = last.links \ {LinkEntry}
           ELSE (last.log = "error" \/ last.raised # "") /\ etmain = last.links

---------------------------------------------------------------------------
(* Maps: add_map, remove_map, list_enabled_maps *)

\* The names list_enabled_maps collects from etmain (line 519)
Pk3Stems(entries) ==
    {e.name[1] : e \in {x \in entries : x.kind # "dir" /\ x.name[2] = "pk3"}}

\* list_enabled_maps as the calls that use it see it: list.remove raises
\* ValueError for a name the list does not hold; iterdir raises when etmain
\* is not there. A directory holds a name once, so removing the first
\* occurrence removes the name.
ListEnabled(entries, tr) ==
    IF ~tr.etmain_dir
    THEN [raised |-> "FileNotFoundError", outs |-> {None}]
    ELSE IF ~(Paks \subseteq Pk3Stems(entries))
    THEN [raised |-> "ValueError", outs |-> {None}]
    ELSE [raised |-> "", outs |-> Orders(Pk3Stems(entries) \ Paks)]

list_enabled_maps ==
    /\ steps < MaxOps
    /\ \E res \in {ListEnabled(etmain, tree)} : \E out \in res.outs :
           Note(TreeCall("list_enabled_maps", <<>>, res.raised, "", out))
    /\ UNCHANGED <<cfg, etmain, tree, store>>

\* add_map(map_name) on etmain entries
AddMap(entries, tr, st, map_name) ==
    LET name == with_pk3(map_name)
        same(raised, log) ==
            [entries |-> entries, name |-> name, raised |-> raised, log |-> log]
    IN  IF EntryExists(entries, name, tr, st) THEN same("", "warn")
        ELSE IF ~(name[1] \in st.maps) THEN same("", "error")
        ELSE IF ~tr.etmain_dir THEN same("FileNotFoundError", "")
        ELSE IF \E e \in entries : e.name = name
        THEN same("FileExistsError", "")
        ELSE [entries |-> entries \cup {MapLink(name[1])}, name |-> name,
              raised |-> "", log |-> ""]

add_map(map_name) ==
    /\ steps < MaxOps
    /\ \E res \in {AddMap(etmain, tree, store, map_name)} :
          /\ Note(TreeCall("add_map", <<res.name>>, res.raised, res.log, None))
          /\ etmain' = res.entries
    /\ UNCHANGED <<cfg, tree, store>>

\* remove_map(map_name): the path it tests and unlinks is <server>/maps
remove_map(map_name) ==
    /\ steps < MaxOps
    /\ \E name \in {with_pk3(map_name)} :
        IF ~(name \in tree.maps)
        THEN /\ Note(TreeCall("remove_map", <<name>>, "", "warn", None))
             /\ UNCHANGED tree
        ELSE /\ Note(TreeCall("remove_map", <<name>>, "", "", None))
             /\ tree' = [tree EXCEPT !.maps = @ \ {name}]
    /\ UNCHANGED <<cfg, etmain, store>>

\* Map names as a command gives them, with and without the suffix
MapNames == {<<Oasis, "">>, <<fuel, "">>, <<fuel, "pk3">>}

\* The links to the reserved archives found in etmain: none, some, all
PakSets == {{}, {pak0}, {pak1, pak2}, Paks}

MapInit ==
    /\ inflight = Idle
    /\ cfg = NoFile
    /\ last = [op |-> "init", args |-> <<>>, before |-> InstalledTree,
               links |-> {}, shared |-> EmptyStore,
               raised |-> "", log |-> "", out |-> None]
    /\ prev = [op |-> "init", args |-> <<>>]
    /\ steps = 0
    /\ store \in {[EmptyStore EXCEPT !.maps = m, !.paks = Paks] :
                    m \in {{fuel}, MapStems}}
    /\ \E dir \in BOOLEAN, m \in {{}, {<<fuel, "pk3">>}} :
           tree = [InstalledTree EXCEPT !.etmain_dir = dir, !.maps = m]
    /\ IF tree.etmain_dir
       THEN \E ps \in PakSets, ms \in SUBSET {fuel}, ds \in SUBSET {Oasis} :
               etmain = {PakLink(x) : x \in ps} \cup {MapLink(x) : x \in ms}
                        \cup {DirEntry(x) : x \in ds}
       ELSE etmain = {}

MapNext ==
    \/ \E map_name \in MapNames : add_map(map_name)
    \/ \E map_name \in MapNames : remove_map(map_name)
    \/ list_enabled_maps

MapSpec == MapInit /\ [][MapNext]_vars

\* C11: remove_map(m) right after the add_map(m) that enabled m removes the
\* link of m from etmain, so that m is no longer among the enabled maps, and
\* leaves the shared store as it was.
C11_RemoveMapUndoesAddMap ==
    (/\ last.op = "remove_map"
     /\ prev.op = "add_map" /\ prev.args = last.args
     /\ MapLink(last.args[1][1]) \in last.links) =>
        /\ ~(MapLink(last.args[1][1]) \in etmain)
        /\ ~(last.args[1][1] \in Pk3Stems(etmain))
        /\ store = last.shared

\* C12: in an existing etmain, list_enabled_maps returns, whichever reserved
\* archives are there, exactly the names of the entries that are not
\* directories and end with .pk3, less pak0, pak1 and pak2.
C12_ListEnabledMaps ==
    (last.op = "list_enabled_maps" /\ last.before.etmain_dir) =>
        /\ last.raised = ""
        /\ {last.out[i] : i \in 1..Len(last.out)} = Pk3Stems(last.links) \ Paks

---------------------------------------------------------------------------
(* update_server: the archive, then the reserved archives *)

\* Lines 374-376: the three symlink_to calls in turn. symlink_to raises
\* FileExistsError when the name is taken, whatever holds it, and what the
\* earlier calls linked stays.
LinkPaks(entries) ==
    IF \E e \in entries : e.name = <<pak0, "pk3">>
    THEN [entries |-> entries, raised |-> "FileExistsError"]
    ELSE IF \E e \in entries : e.name = <<pak1, "pk3">>
    THEN [entries |-> entries \cup {PakLink(pak0)},
          raised |-> "FileExistsError"]
    ELSE IF \E e \in entries : e.name = <<pak2, "pk3">>
    THEN [entries |-> entries \cup {PakLink(pak0), PakLink(pak1)},
          raised |-> "FileExistsError"]
    ELSE [entries |-> entries \cup {PakLink(x) : x \in Paks}, raised |-> ""]

\* Lines 361-378 on a tree tr with etmain entries
LinkEtmainPaks(entries, tr, st) ==
    IF \A x \in Paks : EntryExists(entries, <<x, "pk3">>, tr, st)
    THEN [entries |-> entries, raised |-> "", log |-> "info"]
    ELSE IF ~(Paks \subseteq st.paks)
    THEN [entries |-> entries, raised |-> "", log |-> "error"]
    ELSE IF ~tr.etmain_dir
    THEN [entries |-> entries, raised |-> "FileNotFoundError", log |-> ""]
    ELSE [entries |-> LinkPaks(entries).entries,
          raised |-> LinkPaks(entries).raised, log |-> ""]

\* update_server(source_version, force) on a tree tr with etmain entries.
\* The archive of a version unpacks to the server's root with its etmain
\* directory; tarfile.open raises when the archive is not in the store or
\* holds nothing.
UpdateServer(tr, entries, st, source_version, force) ==
    LET version == IF source_version = NoVersion THEN DefaultVersion
                                                 ELSE source_version
        unpack == tr.installed_version # version \/ force
        tr2 == IF unpack
               THEN [tr EXCEPT !.installed_version = version,
                               !.etmain_dir = TRUE]
               ELSE tr
        res == LinkEtmainPaks(entries, tr2, st)
    IN  IF unpack /\ OpenArchive(st.servers[version]) # ""
        THEN [tree |-> tr, entries |-> entries, version |-> version,
              raised |-> OpenArchive(st.servers[version]), log |-> ""]
        ELSE [tree |-> tr2, entries |-> res.entries, version |-> version,
              raised |-> res.raised, log |-> res.log]

update_server(source_version, force) ==
    /\ steps < MaxOps
    /\ \E res \in {UpdateServer(tree, etmain, store, source_version, force)} :
          /\ Note(TreeCall("update_server", <<res.version, force>>,
                           res.raised, res.log, None))
          /\ tree' = res.tree
          /\ etmain' = res.entries
    /\ UNCHANGED <<cfg, store>>

UpdateInit ==
    /\ inflight = Idle
    /\ cfg = NoFile
    /\ last = [op |-> "init", args |-> <<>>, before |-> InstalledTree,
               links |-> {}, shared |-> EmptyStore,
               raised |-> "", log |-> "", out |-> None]
    /\ prev = [op |-> "init", args |-> <<>>]
    /\ steps = 0
    /\ \E ps \in {Paks, {pak0, pak1}, {}},
          vs \in [Versions -> {NoFile, Current}] :
           store = [EmptyStore EXCEPT !.maps = MapStems, !.paks = ps,
                                      !.servers = vs]
    /\ \E dir \in BOOLEAN, v \in {NoVersion, DefaultVersion} :
           tree = [InstalledTree EXCEPT !.etmain_dir = dir,
                                        !.installed_version = v]
    /\ IF tree.etmain_dir
       THEN \E ps \in PakSets, ms \in SUBSET {fuel} :
               /\ ps \subseteq store.paks
               /\ etmain = {PakLink(x) : x \in ps} \cup {MapLink(x) : x \in ms}
       ELSE etmain = {}

UpdateNext ==
    \E source_version \in {NoVersion, "2.81.0"}, force \in BOOLEAN :
        update_server(source_version, force)

UpdateSpec == UpdateInit /\ [][UpdateNext]_vars

\* C17: an update_server that has its archive (or needs none) and finds the
\* three reserved archives in the shared store returns with pak0, pak1 and
\* pak2 all present in etmain, having added links for exactly the ones that
\* were missing, whichever of them were there before; when a shared copy is
\* missing and etmain lacks one, it logs an error and etmain is as before.
C17_UpdateLinksMissingPaks ==
    (/\ last.op = "update_server"
     /\ \/ OpenArchive(last.shared.servers[last.args[1]]) = ""
        \/ last.before.installed_version = last.args[1] /\ ~last.args[2]
     /\ tree.etmain_dir) =>
        IF Paks \subseteq last.shared.paks
        THEN /\ last.raised = ""
             /\ \A x \in Paks : EntryExists(etmain, <<x, "pk3">>, tree, store)
             /\ etmain = last.links \cup
                  {PakLink(x) : x \in {y \in Paks :
                      ~EntryExists(last.links, <<y, "pk3">>, last.before, last.shared)}}
        ELSE \/ \A x \in Paks :
                   EntryExists(last.links, <<x, "pk3">>, last.before, last.shared)
             \/ last.log = "error" /\ etmain = last.links

---------------------------------------------------------------------------
(* build_mapvote_cycle *)

\* "%d" and "{}" on a natural number
DigitSeq == <<"0","1","2","3","4","5","6","7","8","9">>
RECURSIVE Decimal(_)
Decimal(n) ==
    IF n < 10 THEN <<DigitSeq[n + 1]>>
    ELSE Decimal(n \div 10) \o <<DigitSeq[(n % 10) + 1]>>

\* Lines 419-420: the two comment lines and the empty line
MapvoteHeader(stamp) ==
    <<"/","/"," ","M","a","p","v","o","t","e"," ","c","y","c","l","e",
      " ","(","G","e","n","e","r","a","t","e","d"," ","b","y"," ","e",
      "t","s","m",")",NL>>
    \o
    <<"/","/"," ","C","r","e","a","t","e"," ","T","i","m","e"," ">>
    \o stamp \o <<NL, NL>>

\* Line 425: the label d<i>, which loads _map and goes on to d<next>
CycleLine(i, _map, next) ==
    <<"s","e","t"," ","d">>
    \o Decimal(i) \o
    <<" ",QUOTE,"s","e","t"," ","g","_","g","a","m","e","t","y","p",
      "e"," ","6"," ",";"," ","m","a","p"," ">>
    \o lower(_map) \o
    <<" ",";"," ","s","e","t"," ","n","e","x","t","m","a","p"," ","v",
      "s","t","r"," ","d">>
    \o Decimal(next) \o <<QUOTE, NL>>

\* Lines 424-425: the labels for maps[i..], each going on to the label
\* numbered one more than its own
RECURSIVE CycleLines(_, _)
CycleLines(maps, i) ==
    IF i > Len(maps) THEN <<>>
    ELSE CycleLine(i - 1, maps[i], i) \o CycleLines(maps, i + 1)

\* Line 426
CycleTail ==
    <<"v","s","t","r"," ","d","0",NL>>

\* The level names a map archive of the store holds (maps/<name>.bsp)
BspNames(stem) ==
    IF stem = Oasis THEN << <<"o","a","s","i","s">> >>
    ELSE << stem \o <<"_","b","1">> >>

\* get_pk3_maps(maps): the level names of the archives that are in the
\* store, in the order of maps
RECURSIVE get_pk3_maps(_, _)
get_pk3_maps(maps, st) ==
    IF maps = <<>> THEN <<>>
    ELSE (IF Head(maps) \in st.maps THEN BspNames(Head(maps)) ELSE <<>>)
         \o get_pk3_maps(Tail(maps), st)

MapvoteSlot == <<mapvotecycle, "cfg">>
MapvoteLink ==
    [name |-> MapvoteSlot, kind |-> "symlink",
     target |-> PrivateConfig(mapvotecycle)]
\* mapvotecycle-<ts>.cfg
BackupName(ts) == <<mapvotecycle \o <<"-">> \o Decimal(ts), "cfg">>

\* Lines 412-417: a slot that exists and is no symlink is renamed; rename
\* replaces a file that has the new name
MoveSlotAside(entries, tr, st, ts) ==
    IF /\ EntryExists(entries, MapvoteSlot, tr, st)
       /\ \E e \in entries : e.name = MapvoteSlot /\ e.kind # "symlink"
    THEN {e \in entries : e.name # MapvoteSlot /\ e.name # BackupName(ts)}
         \cup {[e EXCEPT !.name = BackupName(ts)] :
                 e \in {x \in entries : x.name = MapvoteSlot}}
    ELSE entries

\* activate_config("mapvotecycle") (lines 460-470) once the private config
\* is written
ActivateMapvote(entries, tr, st) ==
    IF EntryExists(entries, MapvoteSlot, tr, st)
    THEN [entries |-> entries, raised |-> "", log |-> "info"]
    ELSE IF \E e \in entries : e.name = MapvoteSlot
    THEN [entries |-> entries, raised |-> "FileExistsError", log |-> ""]
    ELSE [entries |-> entries \cup {MapvoteLink}, raised |-> "", log |-> ""]

\* build_mapvote_cycle(real_mapnames), with the seconds ts that time.time()
\* gives and the formatted time stamp of the header: its outcomes, one for
\* each order in which iterdir() can yield the enabled maps
BuildMapvote(entries, tr, st, real_mapnames, ts, stamp) ==
    LET moved == MoveSlotAside(entries, tr, st, ts)
        res == ListEnabled(moved, tr)
        written(maps) ==
            [tr EXCEPT !.mapvote = MapvoteHeader(stamp) \o CycleLines(maps, 1)
                                   \o CycleTail]
        outcome(maps) ==
            [tree |-> written(maps),
             entries |-> ActivateMapvote(moved, written(maps), st).entries,
             raised |-> ActivateMapvote(moved, written(maps), st).raised,
             log |-> ActivateMapvote(moved, written(maps), st).log,
             out |-> maps]
    IN  IF res.raised # ""
        THEN {[tree |-> tr, entries |-> moved, raised |-> res.raised,
               log |-> "", out |-> <<>>]}
        ELSE {outcome(IF real_mapnames THEN get_pk3_maps(enabled, st)
                                       ELSE enabled) : enabled \in res.outs}

build_mapvote_cycle(real_mapnames, ts, stamp) ==
    /\ steps < MaxOps
    /\ \E res \in BuildMapvote(etmain, tree, store, real_mapnames, ts, stamp) :
          /\ Note(TreeCall("build_mapvote_cycle", <<real_mapnames, ts, stamp>>,
                           res.raised, res.log, res.out))
          /\ tree' = res.tree
          /\ etmain' = res.entries
    /\ UNCHANGED <<cfg, store>>

\* What time.time() gives, in seconds
Clock == {1700000000, 1700000001}

\* A mapvotecycle.cfg written by hand
HandText ==
    <<"m","a","p"," ","o","a","s","i","s",NL>>
HandFile == [name |-> MapvoteSlot, kind |-> "file", target |-> HandText]

MapvoteInit ==
    /\ inflight = Idle
    /\ cfg = NoFile
    /\ last = [op |-> "init", args |-> <<>>, before |-> InstalledTree,
               links |-> {}, shared |-> EmptyStore,
               raised |-> "", log |-> "", out |-> <<>>]
    /\ prev = [op |-> "init", args |-> <<>>]
    /\ steps = 0
    /\ store = [EmptyStore EXCEPT !.maps = MapStems, !.paks = Paks]
    /\ \E dir \in BOOLEAN :
       \E slot \in {{}, {HandFile}, {MapvoteLink}} :
       \E old \in IF slot = {MapvoteLink} THEN {<<>>} ELSE {<<>>, NoFile} :
       \E ps \in {Paks, {pak0}}, ms \in SUBSET MapStems :
          /\ tree = [InstalledTree EXCEPT
                        !.etmain_dir = dir,
                        !.mapvote = IF old = <<>>
                                    THEN MapvoteHeader(CHOOSE t \in Timestamps : TRUE)
                                         \o CycleTail
                                    ELSE NoFile]
          /\ etmain = IF dir
                      THEN slot \cup {PakLink(x) : x \in ps}
                                \cup {MapLink(x) : x \in ms}
                      ELSE {}

MapvoteNext ==
    \E real_mapnames \in BOOLEAN, ts \in Clock, stamp \in Timestamps :
        build_mapvote_cycle(real_mapnames, ts, stamp)

MapvoteSpec == MapvoteInit /\ [][MapvoteNext]_vars

\* The file the description of the cycle gives for maps: label d(i) goes on
\* to d(i+1) and the last label to d0
RECURSIVE WrappedLines(_, _)
WrappedLines(maps, i) ==
    IF i > Len(maps) THEN <<>>
    ELSE CycleLine(i - 1, maps[i], IF i = Len(maps) THEN 0 ELSE i)
         \o WrappedLines(maps, i + 1)

\* C18: a build_mapvote_cycle that returned for n >= 1 maps has written the
\* header, the n labels d0..d(n-1), label d(i) loading the i-th map in lower
\* case and setting nextmap to the next label, the last label to d0, and the
\* closing "vstr d0"; so every label a vstr names is defined in the file.
C18_CycleWrapsAround ==
    (last.op = "build_mapvote_cycle" /\ last.raised = "" /\ Len(last.out) >= 1) =>
        tree.mapvote = MapvoteHeader(last.args[3])
                       \o WrappedLines(last.out, 1) \o CycleTail

\* C19: after build_mapvote_cycle on a server with an etmain, etmain's
\* mapvotecycle.cfg is a link to the private mapvotecycle.cfg, which holds
\* the file just written, and a regular file that had the slot before the
\* call is in etmain with the same content under the name
\* mapvotecycle-<ts>.cfg; this after the first call and after each later one.
C19_SlotLinksGeneratedFile ==
    (last.op = "build_mapvote_cycle" /\ last.before.etmain_dir) =>
        /\ MapvoteLink \in etmain
        /\ \A e \in etmain : e.name = MapvoteSlot => e = MapvoteLink
        /\ tree.mapvote # NoFile
        /\ \A e \in last.links :
              (e.name = MapvoteSlot /\ e.kind = "file") =>
                 [e EXCEPT !.name = BackupName(last.args[2])] \in etmain

---------------------------------------------------------------------------
(* install_mod *)

\* The version install_mod installs: the one passed or, for None, the latest
\* of the manifest SourcesManager() fetches. Without a manifest the
\* constructor raises TypeError at its test of line 82.
RequestedVersion(mod_version, latest) ==
    IF mod_version # None THEN [raised |-> "", version |-> mod_version]
    ELSE IF latest = None THEN [raised |-> "TypeError", version |-> None]
    ELSE [raised |-> "", version |-> latest]

\* Lines 730-737: the mod is there with the marker .mod_version holding the
\* version asked for. The parameter force is not read.
AlreadyInstalled(tr, version, force) ==
    tr.mod_dir /\ tr.mod_version # NoFile /\ tr.mod_version = version

\* install_mod(mod_name, mod_version, force) for one mod on a tree tr. out
\* tells whether the archive was unpacked.
InstallMod(tr, st, mod_version, force, latest) ==
    LET req == RequestedVersion(mod_version, latest)
        skip(raised, log) ==
            [tree |-> tr, version |-> req.version, raised |-> raised,
             log |-> log, out |-> <<"skipped">>]
    IN  IF req.raised # "" THEN skip(req.raised, "")
        ELSE IF st.mods[req.version] = NoFile THEN skip("", "error")
        ELSE IF AlreadyInstalled(tr, req.version, force) THEN skip("", "warn")
        ELSE IF OpenArchive(st.mods[req.version]) # ""
        THEN skip(OpenArchive(st.mods[req.version]), "")
        ELSE [tree |-> [tr EXCEPT !.mod_dir = TRUE,
                                  !.mod_version = req.version],
              version |-> req.version, raised |-> "", log |-> "",
              out |-> <<"unpacked">>]

install_mod(mod_version, force, latest) ==
    /\ steps < MaxOps
    /\ \E res \in {InstallMod(tree, store, mod_version, force, latest)} :
          /\ Note(TreeCall("install_mod", <<res.version, force>>,
                           res.raised, res.log, res.out))
          /\ tree' = res.tree
    /\ UNCHANGED <<cfg, etmain, store>>

ModInit ==
    /\ inflight = Idle
    /\ cfg = NoFile
    /\ etmain = {}
    /\ last = [op |-> "init", args |-> <<>>, before |-> InstalledTree,
               links |-> {}, shared |-> EmptyStore,
               raised |-> "", log |-> "", out |-> <<"skipped">>]
    /\ prev = [op |-> "init", args |-> <<>>]
    /\ steps = 0
    /\ \E vs \in [ModVersions -> {NoFile, Empty, Current}] :
          store = [EmptyStore EXCEPT !.mods = vs]
    /\ \E dir \in BOOLEAN, v \in ModVersions \cup {NoFile} :
          /\ ~dir => v = NoFile
          /\ tree = [InstalledTree EXCEPT !.mod_dir = dir, !.mod_version = v]

ModNext ==
    \E mod_version \in ModVersions \cup {None}, force \in BOOLEAN,
       latest \in ModVersions \cup {None} :
        install_mod(mod_version, force, latest)

ModSpec == ModInit /\ [][ModNext]_vars

\* C16: install_mod for a version whose archive is in the store skips when
\* the marker holds that version and force is false, unpacks the archive
\* when force is true even if the marker holds that version, and after every
\* run that unpacked the marker holds the version asked for.
C16_ForceReinstalls ==
    (/\ last.op = "install_mod" /\ last.raised = ""
     /\ last.shared.mods[last.args[1]] = Current) =>
        /\ (~last.args[2] /\ last.before.mod_dir
            /\ last.before.mod_version = last.args[1])
              => (last.out = <<"skipped">> /\ tree = last.before)
        /\ last.args[2] => last.out = <<"unpacked">>
        /\ last.out = <<"unpacked">> => tree.mod_version = last.args[1]

---------------------------------------------------------------------------
(* The editor on a server that is not set up *)

\* A server as ServerManager.__init__ leaves it, with or without the etmain
\* an update_server brings, and with or without the private config
SetupInit ==
    /\ inflight = Idle
    /\ cfg \in {NoFile, L_pass0, L_exec, L_bot}
    /\ etmain = {}
    /\ last = [op |-> "init", args |-> <<>>, before |-> NoFile, links |-> {},
               raised |-> "", log |-> "", out |-> None]
    /\ prev = [op |-> "init", args |-> <<>>]
    /\ steps = 0
    /\ \E dir \in BOOLEAN :
          tree = [InstalledTree EXCEPT
                     !.etmain_dir = dir,
                     !.installed_version = IF dir THEN DefaultVersion
                                                  ELSE NoVersion]
    /\ store = EmptyStore

SetupNext ==
    \/ \E new_values \in Dicts : update_cvars(new_values)
    \/ \E new_values \in Dicts : update_bots(new_values)
    \/ \E exec_name \in ExecNames : add_exec(exec_name)

SetupSpec == SetupInit /\ [][SetupNext]_vars

\* C20: on a server without etmain, update_cvars, update_bots and add_exec
\* on a config that does not exist log the error of a server that is not set
\* up and leave the config missing; a config is created only under a server
\* that has its etmain.
C20_NoConfigWithoutEtmain ==
    (/\ last.op \in {"update_cvars", "update_bots", "add_exec"}
     /\ last.before = NoFile
     /\ ~tree.etmain_dir) =>
        /\ last.log = "error"
        /\ cfg = NoFile

---------------------------------------------------------------------------
(* download_sources: the sync of the shared store *)

\* md5sum(filepath): None for a missing file, else the digest of what the
\* file holds
md5sum(content) == IF content = NoFile THEN None ELSE <<"md5">> \o content

\* The hash the manifest gives for an artifact: the digest of what the
\* mirror serves
ManifestMd5 == md5sum(Current)

\* The manifest's versions in its order, the latest one, and its maps
VersionSeq == <<DefaultVersion, "2.81.0">>
LatestVersion == "2.81.0"
ModVersionSeq == << <<"2",".","8","0">>, <<"2",".","8","1">> >>
LatestModVersion == <<"2",".","8","1">>
ManifestMaps == <<fuel>>

PaksBundle == <<"paks.tgz">>
ServerArchive(v) == <<"servers", v>>
ModArchive(v) == <<"mods", v>>
SystemdTemplate == <<"systemd.service.template">>
TemplateBundle == <<"config_templates">>
MapFile(m) == <<"maps", m>>

\* The artifacts download_sources goes through, in its order (lines 250-270)
SyncSteps(all_versions, download_maps) ==
    <<PaksBundle>>
    \o (IF all_versions
        THEN [i \in 1..Len(VersionSeq) |-> ServerArchive(VersionSeq[i])]
        ELSE <<ServerArchive(LatestVersion)>>)
    \o (IF all_versions
        THEN [i \in 1..Len(ModVersionSeq) |-> ModArchive(ModVersionSeq[i])]
        ELSE <<ModArchive(LatestModVersion)>>)
    \o <<SystemdTemplate, TemplateBundle>>
    \o (IF download_maps
        THEN [i \in 1..Len(ManifestMaps) |-> MapFile(ManifestMaps[i])]
        ELSE <<>>)

\* The test that decides a download, had the template bundle been tested by
\* the digest of what is unpacked in config_templates
ShouldFetchByContent(st, art) ==
    CASE art = PaksBundle -> md5sum(st.paks_tgz) # ManifestMd5
      [] art[1] = "servers" -> md5sum(st.servers[art[2]]) # ManifestMd5
      [] art[1] = "mods" -> md5sum(st.mods[art[2]]) # ManifestMd5
      [] art = SystemdTemplate -> TRUE
      [] art = TemplateBundle -> md5sum(st.templates) # ManifestMd5
      [] art[1] = "maps" -> ~(art[2] \in st.maps)

\* The test that decides a download: the digest of the local file against
\* the manifest's (lines 251, 158, 168, 201, 211); for the template bundle
\* the text of config_templates/checksums.md5 against it (lines 257-264);
\* none for the systemd template (line 263); existence for a map (line 185)
ShouldFetch(st, art) ==
    CASE art = PaksBundle -> md5sum(st.paks_tgz) # ManifestMd5
      [] art[1] = "servers" -> md5sum(st.servers[art[2]]) # ManifestMd5
      [] art[1] = "mods" -> md5sum(st.mods[art[2]]) # ManifestMd5
      [] art = SystemdTemplate -> TRUE
      [] art = TemplateBundle ->
            (IF st.checksums = NoFile THEN None ELSE st.checksums) # ManifestMd5
      [] art[1] = "maps" -> ~(art[2] \in st.maps)

\* What download_file_progress leaves at its destination: open(..., "wb")
\* empties it, then the bytes of a 200 response with a content-length go in
Received(net) == IF net = "ok" THEN Current ELSE Empty

\* The download of one artifact with what follows it (download_paks,
\* download_config_templates unpack after a download that returned True)
Fetched(st, art, net) ==
    CASE art = PaksBundle ->
            [st EXCEPT !.paks_tgz = Received(net),
                       !.paks = IF net = "ok" THEN Paks ELSE @]
      [] art[1] = "servers" -> [st EXCEPT !.servers[art[2]] = Received(net)]
      [] art[1] = "mods" -> [st EXCEPT !.mods[art[2]] = Received(net)]
      [] art = SystemdTemplate -> [st EXCEPT !.systemd = Received(net)]
      [] art = TemplateBundle ->
            IF net = "ok"
            THEN [st EXCEPT !.templates = Current, !.checksums = ManifestMd5]
            ELSE st
      [] art[1] = "maps" -> [st EXCEPT !.maps = @ \cup {art[2]}]

\* download_sources from its i-th artifact on. A response without a
\* content-length makes sizeof_fmt(None) raise TypeError (line 93), which
\* ends the sync; a status other than 200 logs an error and the sync goes on.
RECURSIVE SyncFrom(_, _, _, _)
SyncFrom(acc, todo, i, net) ==
    IF i > Len(todo) \/ acc.raised # "" THEN acc
    ELSE IF ~ShouldFetch(acc.store, todo[i])
    THEN SyncFrom([acc EXCEPT !.reached = @ \cup {todo[i]}], todo, i + 1, net)
    ELSE SyncFrom([store |-> Fetched(acc.store, todo[i], net),
                   raised |-> IF net = "no-length" THEN "TypeError" ELSE "",
                   reached |-> acc.reached \cup {todo[i]},
                   fetched |-> acc.fetched \cup {todo[i]}],
                  todo, i + 1, net)

Sync(st, all_versions, download_maps, net) ==
    SyncFrom([store |-> st, raised |-> "", reached |-> {}, fetched |-> {}],
             SyncSteps(all_versions, download_maps), 1, net)

\* download_sources(all_versions, download_maps), the mirror answering each
\* request of the sync as net says
download_sources(all_versions, download_maps, net) ==
    /\ steps < MaxOps
    /\ \E res \in {Sync(store, all_versions, download_maps, net)} :
          /\ store' = res.store
          /\ Note([op |-> "download_sources",
                   args |-> <<all_versions, download_maps, net>>,
                   shared |-> store, raised |-> res.raised,
                   reached |-> res.reached, fetched |-> res.fetched])
    /\ UNCHANGED <<cfg, etmain, tree>>

Answers == {"ok", "http-error", "no-length"}

SyncInit ==
    /\ inflight = Idle
    /\ cfg = NoFile
    /\ etmain = {}
    /\ tree = InstalledTree
    /\ last = [op |-> "init", args |-> <<>>, shared |-> EmptyStore,
               raised |-> "", reached |-> {}, fetched |-> {}]
    /\ prev = [op |-> "init", args |-> <<>>]
    /\ steps = 0
    /\ \E p \in {NoFile, Current, Stale},
          sv \in [Versions -> {NoFile, Current}],
          mv \in {[v \in ModVersions |-> NoFile],
                  [v \in ModVersions |-> IF v = LatestModVersion
                                         THEN Stale ELSE Current]},
          t \in {NoFile, Current},
          c \in {NoFile, ManifestMd5, md5sum(Stale)} :
          store = [EmptyStore EXCEPT
                     !.paks_tgz = p, !.paks = IF p = NoFile THEN {} ELSE Paks,
                     !.servers = sv, !.mods = mv,
                     !.templates = t, !.checksums = c]

SyncNext ==
    \E all_versions \in BOOLEAN, download_maps \in BOOLEAN, net \in Answers :
        download_sources(all_versions, download_maps, net)

SyncSpec == SyncInit /\ [][SyncNext]_vars

\* The artifacts of a sync that carry a version and a hash in the manifest
Versioned(arts) ==
    {a \in arts : a # SystemdTemplate /\ a[1] # "maps"}

---------------------------------------------------------------------------
(* create: the sync, the tree, the update, then the descriptor's steps *)

\* The class [A-Za-z0-9._] of the names of startup configs
NameChars == LowerChars \cup UpperChars \cup DigitChars \cup {".", "_"}

\* re.match(r"^[A-Za-z0-9._]+$", name): $ also matches before a newline
\* that ends the name
ValidName(name) ==
    /\ Len(name) >= 1
    /\ name[1] \in NameChars
    /\ \A i \in 1..Len(name) :
          \/ name[i] \in NameChars
          \/ i = Len(name) /\ name[i] = NL

\* config_name with ".cfg" added when it does not end with it, as the file
\* name <<stem, "cfg">>
with_cfg(config_name) ==
    IF /\ Len(config_name) >= 4
       /\ SubSeq(config_name, Len(config_name) - 3, Len(config_name))
            = <<".","c","f","g">>
    THEN <<SubSeq(config_name, 1, Len(config_name) - 4), "cfg">>
    ELSE <<config_name, "cfg">>

ConfigLink(name) ==
    [name |-> name, kind |-> "symlink", target |-> <<"etsm_configs", name>>]

\* ServerManager.__init__: the root, etsm_configs and the state file are
\* made when they are missing
ConstructManager(tr) == IF tr.root THEN tr ELSE [AbsentTree EXCEPT !.root = TRUE]

\* build_startup_args: the address, the mod and one +exec for each startup
\* config whose name is in the class
build_startup_args(tr) ==
    <<tr.server_ip, tr.server_port, tr.server_mod,
      SelectSeq(tr.startup_configs, ValidName)>>

\* build_systemd_file: the unit written from the template of the store and
\* the start-up arguments of the state file
build_systemd_file(tr, st) ==
    IF st.systemd = NoFile THEN tr
    ELSE [tr EXCEPT !.unit =
            IF st.systemd = Empty THEN Empty ELSE build_startup_args(tr)]

set_ip(tr, st, ip) == build_systemd_file([tr EXCEPT !.server_ip = ip], st)
set_port(tr, st, port) == build_systemd_file([tr EXCEPT !.server_port = port], st)

\* add_startup_config(config_name): a name outside the class is logged as
\* an error and the call returns
AddStartupConfig(tr, config_name) ==
    IF ~ValidName(config_name)
    THEN [tree |-> tr, log |-> "error"]
    ELSE [tree |-> [tr EXCEPT !.startup_configs =
                       Append(@, with_cfg(config_name)[1] \o <<".","c","f","g">>)],
          log |-> ""]

\* create_config(config_name, from_template=None, cvars={}, activate=True):
\* update_cvars writes the header of the missing config, activate_config
\* links it. No test of the name is made.
CreateConfig(tr, entries, st, config_name) ==
    LET name == with_cfg(config_name)
        tr2 == [tr EXCEPT !.configs = @ \cup {name}]
    IN  IF name \in tr.configs
        THEN [tree |-> tr, entries |-> entries, raised |-> "", log |-> "error"]
        ELSE IF EntryExists(entries, name, tr2, st)
        THEN [tree |-> tr2, entries |-> entries, raised |-> "", log |-> "info"]
        ELSE IF ~tr2.etmain_dir
        THEN [tree |-> tr2, entries |-> entries,
              raised |-> "FileNotFoundError", log |-> ""]
        ELSE IF \E e \in entries : e.name = name
        THEN [tree |-> tr2, entries |-> entries,
              raised |-> "FileExistsError", log |-> ""]
        ELSE [tree |-> tr2, entries |-> entries \cup {ConfigLink(name)},
              raised |-> "", log |-> ""]

\* What create carries from one step of the descriptor to the next: the
\* tree, etmain, the store, the exception that left create, whether create
\* is over, whether _undo_create ran, and the steps applied so far
Raise(acc, e) == [acc EXCEPT !.raised = e, !.stop = TRUE]
Applied(acc, step) == [acc EXCEPT !.applied = Append(@, step)]

\* _undo_create: rmtree of the server's root when it exists
UndoCreate(acc) ==
    [acc EXCEPT !.tree = AbsentTree, !.entries = {},
                !.stop = TRUE, !.undone = TRUE]

\* Lines 193-196
AddressSteps(acc, d) ==
    LET a1 == IF d.server_ip = "" THEN acc
              ELSE Applied([acc EXCEPT !.tree = set_ip(@, acc.store, d.server_ip)],
                           <<1, 0>>)
    IN  IF d.server_port = 0 THEN a1
        ELSE Applied([a1 EXCEPT !.tree = set_port(@, a1.store, d.server_port)],
                     <<2, 0>>)

\* Lines 197-204: the mod section; no version is given, so install_mod asks
\* the manifest for the latest
ModStep(acc, d) ==
    IF acc.stop \/ d.mod = "none" THEN acc
    ELSE IF d.mod = "noname" THEN UndoCreate(acc)
    ELSE LET res == InstallMod(acc.tree, acc.store, None, FALSE, LatestModVersion)
         IN  IF res.raised # "" THEN Raise(acc, res.raised)
             ELSE Applied([acc EXCEPT !.tree = res.tree], <<3, 0>>)

\* Lines 205-221 from the i-th entry of configs on. An entry is
\* [name, bot]; bot is "none", "dict" or "list". update_bots changes the
\* text of the config only.
RECURSIVE ConfigSteps(_, _, _)
ConfigSteps(acc, d, i) ==
    IF acc.stop \/ i > Len(d.configs) THEN acc
    ELSE IF d.configs[i].name = <<>> THEN UndoCreate(acc)
    ELSE LET res == CreateConfig(acc.tree, acc.entries, acc.store,
                                 d.configs[i].name)
             made == Applied([acc EXCEPT !.tree = res.tree,
                                         !.entries = res.entries], <<4, i>>)
         IN  IF res.raised # "" THEN Raise(made, res.raised)
             ELSE IF d.configs[i].bot = "list" THEN UndoCreate(made)
             ELSE ConfigSteps(made, d, i + 1)

\* Line 225: download_maps from the i-th map on
RECURSIVE DownloadMaps(_, _, _, _)
DownloadMaps(acc, maps, i, net) ==
    IF acc.stop \/ i > Len(maps) THEN acc
    ELSE IF ~ShouldFetch(acc.store, MapFile(with_pk3(maps[i])[1]))
    THEN DownloadMaps(acc, maps, i + 1, net)
    ELSE LET got == [acc EXCEPT !.store =
                        Fetched(@, MapFile(with_pk3(maps[i])[1]), net)]
         IN  IF net = "no-length" THEN Raise(got, "TypeError")
             ELSE DownloadMaps(got, maps, i + 1, net)

\* Lines 226-227 from the i-th map on
RECURSIVE AddMaps(_, _, _)
AddMaps(acc, maps, i) ==
    IF acc.stop \/ i > Len(maps) THEN acc
    ELSE LET res == AddMap(acc.entries, acc.tree, acc.store, maps[i])
         IN  IF res.raised # "" THEN Raise(acc, res.raised)
             ELSE AddMaps([acc EXCEPT !.entries = res.entries], maps, i + 1)

\* Lines 222-227
MapSteps(acc, d, net) ==
    IF acc.stop \/ d.maps = <<>> THEN acc
    ELSE LET got == AddMaps(DownloadMaps(acc, d.maps, 1, net), d.maps, 1)
         IN  IF got.stop THEN got ELSE Applied(got, <<5, 0>>)

\* Lines 228-229. A descriptor enables one map at most and create starts
\* from a tree without maps, so iterdir() has one order.
MapvoteStep(acc, d, ts, stamp) ==
    IF acc.stop \/ ~d.build_mapvote THEN acc
    ELSE LET res == CHOOSE r \in BuildMapvote(acc.entries, acc.tree, acc.store,
                                              TRUE, ts, stamp) : TRUE
             built == [acc EXCEPT !.tree = res.tree, !.entries = res.entries]
         IN  IF res.raised # "" THEN Raise(built, res.raised)
             ELSE Applied(built, <<6, 0>>)

\* Lines 230-232 from the i-th name on: what add_startup_config logs is not
\* looked at
RECURSIVE StartupSteps(_, _, _)
StartupSteps(acc, d, i) ==
    IF acc.stop \/ i > Len(d.startup_configs) THEN acc
    ELSE LET res == AddStartupConfig(acc.tree, d.startup_configs[i])
         IN  IF res.log = "error" THEN StartupSteps(acc, d, i + 1)
             ELSE StartupSteps(Applied([acc EXCEPT !.tree = res.tree], <<7, i>>),
                               d, i + 1)

\* Lines 192-232
DescriptorSteps(acc, d, net, ts, stamp) ==
    StartupSteps(
        MapvoteStep(
            MapSteps(ConfigSteps(ModStep(AddressSteps(acc, d), d), d, 1), d, net),
            d, ts, stamp),
        d, 1)

\* create(version, from_config, force) with the descriptor d that from_config
\* names (d.given tells whether one is passed and whether its file exists).
\* The sync comes first, then ServerManager(), then the test for an
\* existing server, then the update and the descriptor's steps.
Create(tr, entries, st, version, force, d, net, ts, stamp) ==
    LET sync == Sync(st, TRUE, FALSE, net)
        tr1 == ConstructManager(tr)
        upd == UpdateServer(tr1, entries, sync.store, version, force)
        start == [tree |-> upd.tree, entries |-> upd.entries,
                  store |-> sync.store, raised |-> "", stop |-> FALSE,
                  undone |-> FALSE, applied |-> <<>>]
        end(t, e, s, raised, printed, phase) ==
            [tree |-> t, entries |-> e, store |-> s, raised |-> raised,
             printed |-> printed, phase |-> phase, undone |-> FALSE,
             applied |-> <<>>, fetched |-> IF phase = "file" THEN {}
                                           ELSE sync.fetched]
    IN  IF d.given = "missing"
        THEN end(tr, entries, st, "", "no file", "file")
        ELSE IF sync.raised # ""
        THEN end(tr, entries, sync.store, sync.raised, "", "sync")
        ELSE IF tr1.etmain_dir /\ ~force
        THEN end(tr1, entries, sync.store, "", "exists", "refused")
        ELSE IF upd.raised # ""
        THEN end(upd.tree, upd.entries, sync.store, upd.raised, "", "update")
        ELSE IF d.given = "none"
        THEN end(upd.tree, upd.entries, sync.store, "", "", "update")
        ELSE LET acc == DescriptorSteps(start, d, net, ts, stamp)
             IN  [tree |-> acc.tree, entries |-> acc.entries,
                  store |-> acc.store, raised |-> acc.raised,
                  printed |-> IF acc.undone THEN "invalid" ELSE "",
                  phase |-> "steps", undone |-> acc.undone,
                  applied |-> acc.applied, fetched |-> sync.fetched]

create(version, force, d, net, ts, stamp) ==
    /\ steps < MaxOps
    /\ \E res \in {Create(tree, etmain, store, version, force, d, net, ts, stamp)} :
          /\ tree' = res.tree
          /\ etmain' = res.entries
          /\ store' = res.store
          /\ Note([op |-> "create", args |-> <<version, force, d, net>>,
                   before |-> tree, links |-> etmain, shared |-> store,
                   raised |-> res.raised, printed |-> res.printed,
                   phase |-> res.phase, undone |-> res.undone,
                   applied |-> res.applied, fetched |-> res.fetched])
    /\ UNCHANGED cfg

\* Descriptors: none, one whose file is missing, and ones read from a file
NoDescriptor ==
    [given |-> "none", server_ip |-> "", server_port |-> 0, mod |-> "none",
     configs |-> <<>>, maps |-> <<>>, build_mapvote |-> FALSE,
     startup_configs |-> <<>>]
GoodName == <<"p","u","b",".","c","f","g">>
OtherName == <<"w","a","r">>
BadName == <<"m","y"," ","w","a","r">>
FullDescriptor ==
    [NoDescriptor EXCEPT
        !.given = "file", !.server_ip = "10.0.0.1", !.server_port = 27961,
        !.mod = "legacy",
        !.configs = <<[name |-> GoodName, bot |-> "dict"],
                      [name |-> OtherName, bot |-> "none"]>>,
        !.maps = <<<<fuel, "">>>>, !.build_mapvote = TRUE,
        !.startup_configs = <<GoodName, OtherName>>]
Descriptors ==
    { NoDescriptor,
      [NoDescriptor EXCEPT !.given = "missing"],
      FullDescriptor,
      [FullDescriptor EXCEPT !.mod = "noname"],
      [FullDescriptor EXCEPT !.configs[1].name = <<>>],
      [FullDescriptor EXCEPT !.configs[1].bot = "list"],
      [FullDescriptor EXCEPT !.configs[2].name = BadName],
      [FullDescriptor EXCEPT !.startup_configs[1] = BadName],
      [FullDescriptor EXCEPT !.mod = "none", !.build_mapvote = FALSE,
                             !.startup_configs = <<BadName, GoodName>>] }

\* A store after a sync that the mirror served, and a store after one that
\* it refused
SyncedStore ==
    [EmptyStore EXCEPT
        !.paks_tgz = Current, !.paks = Paks,
        !.servers = [v \in Versions |-> Current],
        !.mods = [v \in ModVersions |-> Current],
        !.systemd = Current, !.templates = Current,
        !.checksums = ManifestMd5]

CreateInit ==
    /\ inflight = Idle
    /\ cfg = NoFile
    /\ last = [op |-> "init", args |-> <<>>]
    /\ prev = [op |-> "init", args |-> <<>>]
    /\ steps = 0
    /\ store \in {EmptyStore, SyncedStore}
    /\ \/ tree = AbsentTree /\ etmain = {}
       \/ /\ store = SyncedStore
          /\ tree = InstalledTree
          /\ etmain = {PakLink(x) : x \in Paks}

CreateNext ==
    \E force \in BOOLEAN, d \in Descriptors, net \in Answers,
       ts \in Clock, stamp \in Timestamps :
        create(NoVersion, force, d, net, ts, stamp)

CreateSpec == CreateInit /\ [][CreateNext]_vars

\* C14: a create for a server that already exists, without force, prints
\* the refusal, downloads or rewrites no artifact of the shared source
\* store, and leaves the server's tree and its etmain entries as they were.
C14_RefusedCreateChangesNothing ==
    (/\ last.op = "create"
     /\ last.before.etmain_dir
     /\ ~last.args[2]
     /\ last.args[3].given # "missing")
        => /\ last.raised = ""
           /\ last.printed = "exists"
           /\ last.fetched = {}
           /\ store = last.shared
           /\ tree = last.before
           /\ etmain = last.links

\* The labels of a descriptor's structurally invalid steps, in the order
\* create would come to them
ComesBefore(a, b) == a[1] < b[1] \/ (a[1] = b[1] /\ a[2] < b[2])
InvalidSteps(d) ==
    {<<3, 0>> : x \in {d.mod} \cap {"noname"}}
    \cup {<<4, i>> : i \in {j \in DOMAIN d.configs :
                               \/ d.configs[j].name = <<>>
                               \/ d.configs[j].bot = "list"
                               \/ ~ValidName(d.configs[j].name)}}
    \cup {<<7, i>> : i \in {j \in DOMAIN d.startup_configs :
                               ~ValidName(d.startup_configs[j])}}

\* C15: a create that comes to a structurally invalid step of its
\* descriptor applies no later step, and the server root does not exist
\* when it returns.
C15_InvalidStepAbortsCreate ==
    (/\ last.op = "create"
     /\ last.phase = "steps"
     /\ last.raised = ""
     /\ InvalidSteps(last.args[3]) # {})
        => /\ ~tree.root
           /\ \A i \in DOMAIN last.applied :
                 \A bad \in InvalidSteps(last.args[3]) :
                     ~ComesBefore(bad, last.applied[i])

---------------------------------------------------------------------------
(* Reading a config that may not exist *)

\* r"^set\s+(\w+).*$" matches at p
SetMatchAt(t, p) ==
    /\ AtLineStart(t, p)
    /\ StartsWithAt(t, p, SET)
    /\ SpaceRun(t, p + Len(SET)) >= 1
    /\ WordRun(t, p + Len(SET) + SpaceRun(t, p + Len(SET))) >= 1

\* re.findall(r"^set\s+(\w+).*$", config, re.MULTILINE), from position p on
RECURSIVE FindSetsFrom(_, _)
FindSetsFrom(t, p) ==
    LET starts == {q \in p..Len(t) : SetMatchAt(t, q)}
    IN  IF starts = {} THEN <<>>
        ELSE LET m == Min(starts)
                 w == m + Len(SET) + SpaceRun(t, m + Len(SET))
                 n == WordRun(t, w)
             IN  <<SubSeq(t, w, w + n - 1)>> \o FindSetsFrom(t, LineEnd(t, w + n))

\* list_cvars(config_name)
list_cvars ==
    /\ steps < MaxOps
    /\ IF get_config = None
       THEN Record(Call("list_cvars", <<>>, "", "error", None))
       ELSE \E matches \in {FindSetsFrom(get_config, 1)} :
                IF Len(matches) = 0
                THEN Record(Call("list_cvars", <<>>, "", "warn", None))
                ELSE Record(Call("list_cvars", <<>>, "", "", matches))
    /\ UNCHANGED <<cfg, etmain>>

ReadNext ==
    \/ \E cvar \in Keys : get_cvar(cvar)
    \/ list_cvars
    \/ list_execs
    \/ \E exec_name \in ExecNames : remove_exec(exec_name)

ReadSpec == Init /\ [][ReadNext]_vars

\* C21: get_cvar, list_cvars, list_execs and remove_exec on a config file
\* that does not exist log an error and return no value, raise nothing, and
\* leave the config and the entries of etmain as they were.
C21_MissingConfigIsNotFound ==
    (/\ last.op \in {"get_cvar", "list_cvars", "list_execs", "remove_exec"}
     /\ last.before = NoFile)
        => /\ last.raised = ""
           /\ last.log = "error"
           /\ last.out = None
           /\ cfg = NoFile
           /\ etmain = last.links

---------------------------------------------------------------------------
(* Whether a config is active *)

\* config_activated(config_name): Path.exists() of etmain/<name>
config_activated == EtmainExists(ConfigName)

\* list_active_configs(): the names of the symlinks of etmain that end in
\* ".cfg", without that ending
ConfigStem == "server"
StripCfg(name) == IF name = ConfigName THEN ConfigStem ELSE name
list_active_configs == {StripCfg(e.name) : e \in {x \in etmain : x.kind = "symlink"}}

\* C22: in every state a call has left, config_activated is true exactly
\* when etmain holds a symlink of the config's name, and exactly when
\* list_active_configs names the config; and an activate_config that finds a
\* regular file of that name in etmain still leaves the link to the private
\* config there.
C22_ActiveIffSymlink ==
    /\ last.op # "init" =>
          /\ config_activated <=>
                \E e \in etmain : e.name = ConfigName /\ e.kind = "symlink"
          /\ config_activated <=> ConfigStem \in list_active_configs
    /\ (/\ last.op = "activate_config"
        /\ last.before # NoFile
        /\ FileEntry \in last.links) => LinkEntry \in etmain

---------------------------------------------------------------------------
(* Two update_cvars invocations against the same config. Nothing locks the
   file: a process reads it (line 559), creates it with its header when it
   is missing (561-569), and writes its edited copy back (581-582). *)

sv_fps == <<"s","v","_","f","p","s">>
RaceKeys == Keys \cup {sv_fps}
RaceDicts == {<<<<k, <<"1">>>>>> : k \in RaceKeys}

Other(p) == CHOOSE q \in Procs : q # p
Running(pr) == pr.pc \in {"read", "check", "write"}

\* the process is started; it overlaps a process that has not finished
begin(p, new_values) ==
    /\ inflight[p].pc = "idle"
    /\ LET both == Running(inflight[Other(p)])
       IN  inflight' =
             [q \in Procs |->
                IF q = p
                THEN [inflight[p] EXCEPT !.pc = "read", !.new_values = new_values,
                                         !.overlapped = both]
                ELSE [inflight[q] EXCEPT !.overlapped = @ \/ both]]
    /\ UNCHANGED <<cfg, etmain, last, prev, steps, tree, store>>

\* config = self.get_config(config_name)
read(p) ==
    /\ inflight[p].pc = "read"
    /\ inflight' = [inflight EXCEPT ![p].pc = "check", ![p].config = get_config]
    /\ UNCHANGED <<cfg, etmain, last, prev, steps, tree, store>>

\* if not config_path.exists(): the header is written
check(p) ==
    /\ inflight[p].pc = "check"
    /\ IF ConfigExists
       THEN /\ inflight' = [inflight EXCEPT ![p].pc = "write"]
            /\ UNCHANGED cfg
       ELSE \E ts \in Timestamps :
              /\ inflight' = [inflight EXCEPT ![p].pc = "write",
                                              ![p].config = Header(ts)]
              /\ cfg' = Header(ts)
    /\ UNCHANGED <<etmain, last, prev, steps, tree, store>>

\* the loop over new_values and the final write. `key in config` raises
\* TypeError on the None that get_config returned for a file another
\* process has created since.
write(p) ==
    /\ inflight[p].pc = "write"
    /\ IF inflight[p].config = None
       THEN /\ inflight' = [inflight EXCEPT ![p].pc = "done",
                                            ![p].raised = "TypeError"]
            /\ UNCHANGED cfg
       ELSE \E res \in {update_cvars_loop(inflight[p].config,
                                          inflight[p].new_values)} :
              IF res = ReError
              THEN /\ inflight' = [inflight EXCEPT ![p].pc = "done",
                                                   ![p].raised = "re.error"]
                   /\ UNCHANGED cfg
              ELSE /\ inflight' = [inflight EXCEPT ![p].pc = "done"]
                   /\ cfg' = res
    /\ UNCHANGED <<etmain, last, prev, steps, tree, store>>

RaceInit ==
    /\ cfg \in {NoFile, <<>>, L_pass0, L_comment}
    /\ etmain = {}
    /\ last = [op |-> "init", args |-> <<>>]
    /\ prev = [op |-> "init", args |-> <<>>]
    /\ steps = 0
    /\ tree = InstalledTree
    /\ store = EmptyStore
    /\ inflight = Idle

RaceNext ==
    \E p \in Procs :
        \/ \E new_values \in RaceDicts : begin(p, new_values)
        \/ read(p)
        \/ check(p)
        \/ write(p)

RaceSpec == RaceInit /\ [][RaceNext]_vars

\* both invocations have returned, for distinct cvars
BothDone ==
    /\ \A p \in Procs : inflight[p].pc = "done" /\ inflight[p].raised = ""
    /\ inflight[1].new_values[1][1] # inflight[2].new_values[1][1]

HoldsSetLines ==
    \A p \in Procs : SetLinesOf(cfg, inflight[p].new_values[1][1]) # {}

\* the lost update: two overlapping invocations after which one of the two
\* cvars has no line in the file
LostUpdate == BothDone /\ inflight[1].overlapped /\ ~HoldsSetLines

\* C23: two update_cvars calls for distinct cvars that run one after the
\* other, in either order, leave a `set` line of each of the two cvars in
\* the file (while an interleaving of their steps can lose one of them).
C23_SequentialKeepsBoth ==
    (BothDone /\ ~inflight[1].overlapped) => HoldsSetLines

---------------------------------------------------------------------------
(* The commands of `etsm server` on one server name. Each of them but
   delete constructs ServerManager(server_name). *)

\* server run: run_server starts the game in a subprocess, and whatever it
\* raises is logged
run ==
    /\ steps < MaxOps
    /\ tree' = ConstructManager(tree)
    /\ Note(TreeCall("run", <<>>, "", "", None))
    /\ UNCHANGED <<cfg, etmain, store>>

\* server update
update(version, force) ==
    /\ steps < MaxOps
    /\ \E res \in {UpdateServer(ConstructManager(tree), etmain, store,
                                version, force)} :
          /\ tree' = res.tree
          /\ etmain' = res.entries
          /\ Note(TreeCall("update", <<res.version, force>>, res.raised,
                           res.log, None))
    /\ UNCHANGED <<cfg, store>>

\* server maps enabled
enabled ==
    /\ steps < MaxOps
    /\ tree' = ConstructManager(tree)
    /\ \E res \in {ListEnabled(etmain, ConstructManager(tree))} :
       \E out \in res.outs :
           Note(TreeCall("enabled", <<>>, res.raised, "", out))
    /\ UNCHANGED <<cfg, etmain, store>>

\* server maps add
add(map_name) ==
    /\ steps < MaxOps
    /\ tree' = ConstructManager(tree)
    /\ \E res \in {AddMap(etmain, ConstructManager(tree), store, map_name)} :
          /\ etmain' = res.entries
          /\ Note(TreeCall("add", <<res.name>>, res.raised, res.log, None))
    /\ UNCHANGED <<cfg, store>>

\* server mod install
install(force) ==
    /\ steps < MaxOps
    /\ \E res \in {InstallMod(ConstructManager(tree), store, None, force,
                              LatestModVersion)} :
          /\ tree' = res.tree
          /\ Note(TreeCall("install", <<res.version, force>>, res.raised,
                           res.log, res.out))
    /\ UNCHANGED <<cfg, etmain, store>>

\* server delete, agreed by --yes or by the answer to the question
delete(agreed) ==
    /\ steps < MaxOps
    /\ IF agreed /\ tree.root
       THEN tree' = AbsentTree /\ etmain' = {}
       ELSE UNCHANGED <<tree, etmain>>
    /\ Note(TreeCall("delete", <<agreed>>, "", "",
                     IF ~agreed THEN None
                     ELSE IF tree.root THEN <<"Server deleted.">>
                     ELSE <<"Server does not exist.">>))
    /\ UNCHANGED <<cfg, store>>

ServerDescriptors == {NoDescriptor, [FullDescriptor EXCEPT !.mod = "noname"]}

ServerInit ==
    /\ inflight = Idle
    /\ cfg = NoFile
    /\ etmain = {}
    /\ tree = AbsentTree
    /\ store \in {EmptyStore, SyncedStore}
    /\ last = [op |-> "init", args |-> <<>>, before |-> AbsentTree]
    /\ prev = [op |-> "init", args |-> <<>>]
    /\ steps = 0

ServerNext ==
    \/ run
    \/ \E force \in BOOLEAN : update(NoVersion, force)
    \/ enabled
    \/ \E map_name \in MapNames : add(map_name)
    \/ \E force \in BOOLEAN : install(force)
    \/ \E agreed \in BOOLEAN : delete(agreed)
    \/ \E force \in BOOLEAN, d \in ServerDescriptors, net \in Answers,
          ts \in Clock, stamp \in Timestamps :
           create(NoVersion, force, d, net, ts, stamp)

ServerSpec == ServerInit /\ [][ServerNext]_vars

\* C24: a command other than create that is issued for a server that does
\* not exist leaves it absent: no root directory and no state file.
C24_OnlyCreateMakesRoot ==
    (/\ last.op \in {"run", "update", "enabled", "add", "install"}
     /\ ~last.before.root)
        => tree = AbsentTree

\* C25: no command but delete removes a server tree that existed before
\* it; in particular create, when it undoes itself after an invalid step
\* of the descriptor, removes only a tree that it made itself.
C25_OnlyDeleteRemovesTree ==
    (/\ last.op \notin {"init", "delete"}
     /\ last.before.root)
        => tree.root

---------------------------------------------------------------------------
(* The manifest and a single download *)

\* What the mirror answers to the request for index.yaml
ManifestAnswers == {"ok", "http-error", "unparseable"}

\* get_index(): self.index stays None after a status other than 200 and
\* after a ParserError, each logged as an error
get_index(answer) == IF answer = "ok" THEN <<"index">> ELSE None

\* SourcesManager.__init__: after get_index a missing index is logged, and
\* the next statement tests `"etsm" not in self.index`, which raises
\* TypeError on None
SourcesManager(answer) ==
    [index |-> get_index(answer),
     log |-> IF get_index(answer) = None THEN "error" ELSE "",
     raised |-> IF get_index(answer) = None THEN "TypeError" ELSE ""]

\* sources update: SourcesManager(...), then download_sources
Sources_update(answer, all_versions, download_maps, net) ==
    /\ steps < MaxOps
    /\ \E sm \in {SourcesManager(answer)} :
       \E res \in {IF sm.raised # ""
                   THEN [store |-> store, raised |-> sm.raised,
                         reached |-> {}, fetched |-> {}]
                   ELSE Sync(store, all_versions, download_maps, net)} :
          /\ store' = res.store
          /\ Note([op |-> "Sources_update",
                   args |-> <<answer, all_versions, download_maps, net>>,
                   shared |-> store, raised |-> res.raised, log |-> sm.log,
                   reached |-> res.reached, fetched |-> res.fetched,
                   out |-> None])
    /\ UNCHANGED <<cfg, etmain, tree>>

\* The files download_file_progress is called on directly
PlainFiles == {ServerArchive(v) : v \in Versions} \cup {SystemdTemplate}
Content(st, art) == IF art = SystemdTemplate THEN st.systemd ELSE st.servers[art[2]]

\* download_file_progress(url, destination): True after the loop, no value
\* after a status other than 200; sizeof_fmt(None) raises TypeError
download_file_progress(art, net) ==
    /\ steps < MaxOps
    /\ store' = Fetched(store, art, net)
    /\ Note([op |-> "download_file_progress", args |-> <<art, net>>,
             shared |-> store,
             raised |-> IF net = "no-length" THEN "TypeError" ELSE "",
             log |-> IF net = "http-error" THEN "error" ELSE "",
             reached |-> {art}, fetched |-> {art},
             out |-> IF net = "ok" THEN <<"True">> ELSE None])
    /\ UNCHANGED <<cfg, etmain, tree>>

SourcesNext ==
    \/ \E answer \in ManifestAnswers, all_versions \in BOOLEAN,
          download_maps \in BOOLEAN, net \in Answers :
           Sources_update(answer, all_versions, download_maps, net)
    \/ \E art \in PlainFiles, net \in Answers : download_file_progress(art, net)

SourcesSpec == SyncInit /\ [][SourcesNext]_vars

\* C26: a sync whose manifest could not be fetched or parsed fetches no
\* artifact and writes no local file, and it ends with a logged error and
\* a return, not with an exception.
C26_ManifestFailureHalts ==
    (last.op = "Sources_update" /\ last.args[1] # "ok")
        => /\ last.fetched = {}
           /\ store = last.shared
           /\ last.log = "error"
           /\ last.raised = ""

\* C27: a download whose response has status 200 returns True and leaves
\* every received byte at the destination, whether or not the response
\* carries a content-length.
C27_FetchWithOrWithoutLength ==
    (last.op = "download_file_progress" /\ last.args[2] \in {"ok", "no-length"})
        => /\ last.raised = ""
           /\ last.out = <<"True">>
           /\ Content(store, last.args[1]) = Current

\* C28: a download that fails with a status other than 200 leaves a
\* destination file that existed with the content it had, and does not
\* return True.
C28_FailedFetchKeepsFile ==
    (/\ last.op = "download_file_progress"
     /\ last.args[2] = "http-error"
     /\ Content(last.shared, last.args[1]) # NoFile)
        => /\ Content(store, last.args[1]) = Content(last.shared, last.args[1])
           /\ last.out # <<"True">>

---------------------------------------------------------------------------
(* The state record .etsm_config and the unit file built from it *)

\* set_mod(mod_name): a mod without a directory is only warned about
set_mod(tr, st, mod_name) == build_systemd_file([tr EXCEPT !.server_mod = mod_name], st)

\* "x.cfg" as the list of the state file holds it
CfgName(config_name) == with_cfg(config_name)[1] \o <<".","c","f","g">>

\* list.remove: the first occurrence goes
RemoveFirst(seq, x) ==
    LET i == CHOOSE j \in DOMAIN seq :
                 seq[j] = x /\ \A k \in 1..j - 1 : seq[k] # x
    IN  SubSeq(seq, 1, i - 1) \o SubSeq(seq, i + 1, Len(seq))

\* remove_startup_config(config_name)
RemoveStartupConfig(tr, config_name) ==
    IF ~(\E j \in DOMAIN tr.startup_configs :
            tr.startup_configs[j] = CfgName(config_name))
    THEN [tree |-> tr, log |-> "warn"]
    ELSE [tree |-> [tr EXCEPT !.startup_configs =
                       RemoveFirst(@, CfgName(config_name))],
          log |-> ""]

\* The record of a command of `etsm server config`: origin is the tree the
\* command before it found
StateCall(op, args, log) ==
    [op |-> op, args |-> args, before |-> tree, origin |-> last.before,
     shared |-> store, raised |-> "", log |-> log]

Config_set_ip(ip) ==
    /\ steps < MaxOps
    /\ tree' = set_ip(ConstructManager(tree), store, ip)
    /\ Note(StateCall("set_ip", <<ip>>, ""))
    /\ UNCHANGED <<cfg, etmain, store>>

Config_set_port(port) ==
    /\ steps < MaxOps
    /\ tree' = set_port(ConstructManager(tree), store, port)
    /\ Note(StateCall("set_port", <<port>>, ""))
    /\ UNCHANGED <<cfg, etmain, store>>

Config_set_mod(mod_name) ==
    /\ steps < MaxOps
    /\ tree' = set_mod(ConstructManager(tree), store, mod_name)
    /\ Note(StateCall("set_mod", <<mod_name>>, ""))
    /\ UNCHANGED <<cfg, etmain, store>>

Config_add_startup_config(config_name) ==
    /\ steps < MaxOps
    /\ \E res \in {AddStartupConfig(ConstructManager(tree), config_name)} :
          /\ tree' = res.tree
          /\ Note(StateCall("add_startup_config", <<config_name>>, res.log))
    /\ UNCHANGED <<cfg, etmain, store>>

Config_remove_startup_config(config_name) ==
    /\ steps < MaxOps
    /\ \E res \in {RemoveStartupConfig(ConstructManager(tree), config_name)} :
          /\ tree' = res.tree
          /\ Note(StateCall("remove_startup_config", <<config_name>>, res.log))
    /\ UNCHANGED <<cfg, etmain, store>>

\* Servers whose unit was built from their state record, or not yet built
StartupLists == {DefaultStartupConfigs, <<CfgName(OtherName)>> \o DefaultStartupConfigs}
StateInit ==
    /\ inflight = Idle
    /\ cfg = NoFile
    /\ etmain = {}
    /\ prev = [op |-> "init", args |-> <<>>]
    /\ steps = 0
    /\ \E t \in {NoFile, Current}, l \in StartupLists, built \in BOOLEAN :
          /\ store = [EmptyStore EXCEPT !.systemd = t]
          /\ \E tr \in {[InstalledTree EXCEPT !.startup_configs = l]} :
                tree = IF built THEN build_systemd_file(tr, store) ELSE tr
    /\ last = [op |-> "init", args |-> <<>>, before |-> tree, origin |-> tree]

StateNext ==
    \/ \E ip \in {DefaultIp, "10.0.0.1"} : Config_set_ip(ip)
    \/ \E port \in {DefaultPort, 27961} : Config_set_port(port)
    \/ \E mod_name \in {DefaultMod, "etmain"} : Config_set_mod(mod_name)
    \/ \E config_name \in {GoodName, OtherName, BadName} :
           Config_add_startup_config(config_name)
    \/ \E config_name \in {GoodName, OtherName, BadName} :
           Config_remove_startup_config(config_name)

StateSpec == StateInit /\ [][StateNext]_vars

\* the fields of the state record
StateRecord(tr) ==
    <<tr.server_ip, tr.server_port, tr.server_mod, tr.startup_configs>>

\* C29: with the systemd template present, after a command that changed
\* the state record the unit file carries the startup command built from
\* the record as it now is.
C29_UnitFollowsStateRecord ==
    (/\ last.op \in {"set_ip", "set_port", "set_mod", "add_startup_config",
                     "remove_startup_config"}
     /\ last.shared.systemd = Current
     /\ StateRecord(tree) # StateRecord(last.before))
        => tree.unit = build_startup_args(tree)

\* C30: add_startup_config(c) followed by remove_startup_config(c), c a
\* valid name, leaves the state record, the order of startup_configs
\* included, as it was before the two calls.
C30_RemoveUndoesAdd ==
    (/\ last.op = "remove_startup_config"
     /\ prev.op = "add_startup_config"
     /\ last.args = prev.args
     /\ ValidName(last.args[1]))
        => StateRecord(tree) = StateRecord(last.origin)

====
